---- MODULE Spec2Model ----
(***************************************************************************)
(* Verification model of the execution and control core of the hedge       *)
(* trading bot: AutomationEngine (control loop, kill switch, rate limit),  *)
(* OrderExecutor (retried single orders, two-leg hedge execution,          *)
(* confirmation polling) and the position store as written by              *)
(* PositionManager, HedgeEngine and RiskManager.                           *)
(*                                                                         *)
(* The three components are checked under separate specifications over one *)
(* set of variables: Spec (AutomationEngine), SpecExec (OrderExecutor) and *)
(* SpecPos (position store).  A specification leaves the variables of the  *)
(* other components at their initial values.                               *)
(***************************************************************************)
EXTENDS Integers, Sequences, FiniteSets, TLC

(***************************************************************************)
(* Bounds of the model.                                                    *)
(***************************************************************************)
\* cycles that may be in progress at the same time
MaxCycles == 2
\* monitoring cycles that enter the strategy loop in one run of the model
MaxCycleRuns == 2
\* last value of the clock; the clock counts hours
MaxTime == 1
\* hedge position ids a strategy may hand out
MaxPos == 1
\* interval timers that may be armed at the same time
MaxTimers == 2
\* start() calls that may be suspended in strategy.initialize() together
MaxStarts == 1

(***************************************************************************)
(* Configuration and program constants of AutomationEngine.                *)
(***************************************************************************)
\* safetyConfig.maxPositionsPerHour of the modelled deployment (default 3)
MaxPositionsPerHour == 1
\* the trailing window of 3600000 ms, in clock units
HourTicks == 1
manualApprovalThreshold == 1000

StrategyIds == {"s1", "s2"}
\* the strategies that are registered with the engine of Spec; SpecCycle registers
\* every strategy of StrategyIds
EngineStrategyIds == {"s1"}
\* values calculatePositionSize() may return (config.parameters.maxPositionSize || 1000)
PositionSizes == {1000, 1500}
PosIds == 1..MaxPos
CycleIds == 1..MaxCycles
TimerIds == 1..MaxTimers

VARIABLES
  \* ---- AutomationEngine ----
  strategies,        \* Map<string, BaseStrategy>: the registered ids in insertion order
  running,           \* this.running
  killSwitch,        \* safetyConfig.killSwitch
  dryRun,            \* safetyConfig.dryRun
  monitoringInterval,\* handle of the interval timer the engine holds; 0 = undefined
  armed,             \* interval timers armed in the event loop
  positionHistory,   \* the recorded executions
  now,               \* Date.now(), in clock units
  executionCount,
  signalCount,
  activePositions,   \* BaseStrategy.activePositions, by strategy
  nextPos,           \* next hedge position id an execute() hands out
  cycles,            \* the monitoringCycle() invocations in progress
  startsInInit,      \* start() calls suspended in `await strategy.initialize()`
  startOutcome,      \* how the start() call went that has just returned or settled;
                     \* "none" once anything else has happened
  cycleRuns          \* monitoring cycles that have entered the strategy loop

engineVars == <<strategies, running, killSwitch, dryRun, monitoringInterval, armed,
                positionHistory, now, executionCount, signalCount, activePositions,
                nextPos, cycles, startsInInit, startOutcome, cycleRuns>>

(***************************************************************************)
(* Helpers.                                                                *)
(***************************************************************************)
Min(S) == CHOOSE x \in S : \A y \in S : x <= y

Range(f) == {f[i] : i \in DOMAIN f}

\* a monitoringCycle() invocation: where it is suspended (pc), the strategy and the
\* position its loops are at, what their iterators have passed, and the time at
\* which the execute() it awaits was called
IdleCycle == [pc |-> "idle", s |-> "none", visited |-> {}, p |-> 0, pvis |-> {}, t |-> 0]

\* the strategies a `for (const strategy of this.strategies.values())` loop has
\* still to visit, in iteration order
Remaining(visited) == SelectSeq(strategies, LAMBDA s : s \notin visited)

Prefix(seq, k) == {seq[j] : j \in 1..k}

(***************************************************************************)
(* AutomationEngine: the strategy loop of monitoringCycle and the position *)
(* loop of checkExitConditions.  isEnabled() reads config.enabled, which   *)
(* enable()/disable() may set at any time: the loop may pass over any of   *)
(* the strategies it has still to visit.                                   *)
(***************************************************************************)
\* where checkExitConditions can suspend next (at `await strategy.shouldClose(id)`
\* of the first tracked position of a strategy it does not pass over), or end
ExitStops(visited, ap) ==
  LET rem == Remaining(visited) IN
    { [pc |-> "shouldClose", s |-> rem[k], visited |-> visited \cup Prefix(rem, k),
       p |-> Min(ap[rem[k]]), pvis |-> {Min(ap[rem[k]])}, t |-> 0] :
         k \in {j \in 1..Len(rem) : ap[rem[j]] # {}} }
    \cup {IdleCycle}

\* where the strategy loop of monitoringCycle can suspend next (at
\* `await strategy.canExecute()`), or go on into checkExitConditions
StrategyStops(visited, ap) ==
  LET rem == Remaining(visited) IN
    { [pc |-> "canExecute", s |-> rem[k], visited |-> visited \cup Prefix(rem, k),
       p |-> 0, pvis |-> {}, t |-> 0] : k \in 1..Len(rem) }
    \cup ExitStops({}, ap)

\* the inner loop of checkExitConditions over the live Set activePositions
PositionStops(cy, ap) ==
  LET left == ap[cy.s] \ cy.pvis IN
    IF left # {}
      THEN {[cy EXCEPT !.pc = "shouldClose", !.p = Min(left),
                       !.pvis = @ \cup {Min(left)}]}
      ELSE ExitStops(cy.visited, ap)

\* cleanupPositionHistory: keep the entries younger than one hour
cleanupPositionHistory(h) == SelectSeq(h, LAMBDA e : e.timestamp > now - HourTicks)

\* the rate-limit half of safetyChecks
RateLimitReached ==
  Len(SelectSeq(positionHistory, LAMBDA e : now - e.timestamp < HourTicks)) >= MaxPositionsPerHour

\* safetyChecks without the manual approval threshold
safetyChecks_rateLimitOnly(size) ==
  ~RateLimitReached

\* safetyChecks(strategy), for the size calculatePositionSize() returned
safetyChecks(size) ==
  /\ ~RateLimitReached
  /\ ~(size > manualApprovalThreshold)

\* recordPosition: the entry pushed for an execute() that was called at time t
\* (`called` is bookkeeping of the model, the code stores the timestamp only)
recordPosition(t) == [timestamp |-> now, called |-> t]

\* BaseStrategy.cleanup of every registered strategy: activePositions.clear()
CleanedUp == [s \in StrategyIds |-> IF s \in Range(strategies) THEN {} ELSE activePositions[s]]

\* FreeCycles of an engine that begins no cycle while another is in progress
FreeCycles_serialized ==
  IF \A c \in CycleIds : cycles[c].pc = "idle" THEN CycleIds ELSE {}

\* the cycle slots of the model that hold no monitoringCycle() in progress
FreeCycles == {c \in CycleIds : cycles[c].pc = "idle"}

\* the slot a new monitoringCycle() invocation takes; 0 when MaxCycles are in progress
FirstFreeCycle == IF FreeCycles = {} THEN 0 ELSE Min(FreeCycles)

(***************************************************************************)
(* AutomationEngine: operations.                                           *)
(***************************************************************************)
\* strategy ids are opaque: the first strategy registered is called s1
registerStrategy(s) ==
  /\ (s = "s2" => "s1" \in Range(strategies))
  /\ strategies' = IF s \in Range(strategies) THEN strategies ELSE Append(strategies, s)
  /\ UNCHANGED <<running, killSwitch, dryRun, monitoringInterval, armed, positionHistory,
                 now, executionCount, signalCount, activePositions, nextPos, cycles,
                 startsInInit>>

\* stop(), lines 136-147, once past the `if (!this.running) return`: the flag, the
\* interval and the cleanup of the strategies (BaseStrategy.cleanup and
\* HedgeStrategy.cleanup suspend at no timer or I/O)
StopNow ==
  /\ running' = FALSE
  /\ armed' = armed \ {monitoringInterval}
  /\ monitoringInterval' = 0
  /\ activePositions' = CleanedUp

stop ==
  /\ IF running
       THEN StopNow
       ELSE UNCHANGED <<running, armed, monitoringInterval, activePositions>>
  /\ UNCHANGED <<strategies, killSwitch, dryRun, positionHistory, now, executionCount,
                 signalCount, nextPos, cycles, startsInInit>>

\* start() up to its first suspension, `await strategy.initialize()`
start ==
  /\ IF running
       THEN /\ startOutcome' = "already_running"
            /\ UNCHANGED <<running, startsInInit>>
       ELSE IF Len(strategies) = 0
         THEN /\ startOutcome' = "threw_no_strategies"
              /\ UNCHANGED <<running, startsInInit>>
         ELSE IF killSwitch
           THEN /\ startOutcome' = "threw_kill_switch"
                /\ UNCHANGED <<running, startsInInit>>
           ELSE /\ startsInInit < MaxStarts
                /\ running' = TRUE
                /\ startsInInit' = startsInInit + 1
                /\ startOutcome' = "initializing"
  /\ UNCHANGED <<strategies, killSwitch, dryRun, monitoringInterval, armed,
                 positionHistory, now, executionCount, signalCount, activePositions,
                 nextPos, cycles>>

\* a strategy's initialize() rejects: start() rejects at line 111
startInitializeThrows ==
  /\ startsInInit > 0
  /\ startsInInit' = startsInInit - 1
  /\ startOutcome' = "threw_initialize"
  /\ UNCHANGED <<strategies, running, killSwitch, dryRun, monitoringInterval, armed,
                 positionHistory, now, executionCount, signalCount, activePositions,
                 nextPos, cycles>>

\* monitoringCycle() from its call to its first suspension, in cycle slot c, with
\* `timers` and `handle` the interval timers and the engine's handle at the call
monitoringCycle(c, timers, handle) ==
  IF ~running
    THEN /\ armed' = timers
         /\ monitoringInterval' = handle
         /\ UNCHANGED <<running, activePositions, positionHistory, cycles, cycleRuns>>
    ELSE IF killSwitch
      THEN /\ running' = FALSE
           /\ armed' = timers \ {handle}
           /\ monitoringInterval' = 0
           /\ activePositions' = CleanedUp
           /\ UNCHANGED <<positionHistory, cycles, cycleRuns>>
      ELSE /\ c \in FreeCycles
           /\ cycleRuns < MaxCycleRuns
           /\ cycleRuns' = cycleRuns + 1
           /\ armed' = timers
           /\ monitoringInterval' = handle
           /\ positionHistory' = cleanupPositionHistory(positionHistory)
           /\ \E nxt \in StrategyStops({}, activePositions) :
                cycles' = [cycles EXCEPT ![c] = nxt]
           /\ UNCHANGED <<running, activePositions>>

\* start() from line 114: setInterval, then the first cycle
startInitialized ==
  /\ startsInInit > 0
  /\ TimerIds \ armed # {}
  /\ startsInInit' = startsInInit - 1
  /\ startOutcome' = "started"
  /\ LET t == Min(TimerIds \ armed) IN
       monitoringCycle(FirstFreeCycle, armed \cup {t}, t)
  /\ UNCHANGED <<strategies, killSwitch, dryRun, now, executionCount, signalCount,
                 nextPos>>

\* an armed interval timer fires: `await this.monitoringCycle()`
timerFires ==
  /\ armed # {}
  /\ monitoringCycle(FirstFreeCycle, armed, monitoringInterval)
  /\ UNCHANGED <<strategies, killSwitch, dryRun, now, executionCount, signalCount,
                 nextPos, startsInInit>>

\* `await strategy.canExecute()` settles in cycle c: lines 179-198; `sizes` is what
\* calculatePositionSize() of the strategy may return
canExecuteWith(c, sizes) ==
  /\ cycles[c].pc = "canExecute"
  /\ \E r \in {"true", "false", "throws"} :
       IF r = "true"
         THEN /\ signalCount' = signalCount + 1
              /\ \E size \in sizes :
                   IF safetyChecks(size)
                     THEN IF dryRun
                       THEN /\ executionCount' = executionCount + 1
                            /\ \E nxt \in StrategyStops(cycles[c].visited, activePositions) :
                                 cycles' = [cycles EXCEPT ![c] = nxt]
                       ELSE /\ cycles' = [cycles EXCEPT ![c].pc = "execute", ![c].t = now]
                            /\ UNCHANGED executionCount
                     ELSE /\ \E nxt \in StrategyStops(cycles[c].visited, activePositions) :
                               cycles' = [cycles EXCEPT ![c] = nxt]
                          /\ UNCHANGED <<executionCount>>
         ELSE /\ \E nxt \in StrategyStops(cycles[c].visited, activePositions) :
                   cycles' = [cycles EXCEPT ![c] = nxt]
              /\ UNCHANGED <<signalCount, executionCount>>
  /\ UNCHANGED <<strategies, running, killSwitch, dryRun, monitoringInterval, armed,
                 positionHistory, now, activePositions, nextPos, startsInInit>>

canExecuteReturns(c) == canExecuteWith(c, PositionSizes)

\* executeSettles with the rejection of execute() leaving monitoringCycle: the
\* cycle ends there and the engine is stopped
executeSettles_throwEscapes(c, maxPos) ==
  /\ cycles[c].pc = "execute"
  /\ \E r \in {"tracked", "resolved", "throws"} :
       IF r = "throws"
         THEN /\ StopNow
              /\ cycles' = [cycles EXCEPT ![c] = IdleCycle]
              /\ UNCHANGED <<executionCount, positionHistory, nextPos>>
         ELSE /\ executionCount' = executionCount + 1
              /\ positionHistory' = Append(positionHistory, recordPosition(cycles[c].t))
              /\ IF r = "tracked"
                   THEN /\ nextPos <= maxPos
                        /\ activePositions' =
                             [activePositions EXCEPT ![cycles[c].s] = @ \cup {nextPos}]
                        /\ nextPos' = nextPos + 1
                   ELSE UNCHANGED <<activePositions, nextPos>>
              /\ \E nxt \in StrategyStops(cycles[c].visited, activePositions') :
                   cycles' = [cycles EXCEPT ![c] = nxt]
              /\ UNCHANGED <<running, monitoringInterval, armed>>
  /\ UNCHANGED <<strategies, killSwitch, dryRun, now, signalCount, startsInInit>>

\* `await strategy.execute()` settles in cycle c: lines 191-204.  HedgeStrategy.execute
\* tracks the hedge it opened (one of at most maxPos ids), or returns early
\* without one, or rejects
executeSettles(c, maxPos) ==
  /\ cycles[c].pc = "execute"
  /\ \E r \in {"tracked", "resolved", "throws"} :
       /\ IF r = "throws"
            THEN UNCHANGED <<executionCount, positionHistory, activePositions, nextPos>>
            ELSE /\ executionCount' = executionCount + 1
                 /\ positionHistory' = Append(positionHistory, recordPosition(cycles[c].t))
                 /\ IF r = "tracked"
                      THEN /\ nextPos <= maxPos
                           /\ activePositions' =
                                [activePositions EXCEPT ![cycles[c].s] = @ \cup {nextPos}]
                           /\ nextPos' = nextPos + 1
                      ELSE UNCHANGED <<activePositions, nextPos>>
       /\ \E nxt \in StrategyStops(cycles[c].visited, activePositions') :
            cycles' = [cycles EXCEPT ![c] = nxt]
  /\ UNCHANGED <<strategies, running, killSwitch, dryRun, monitoringInterval, armed,
                 now, signalCount, startsInInit>>

executeReturns(c) == executeSettles(c, MaxPos)

\* shouldCloseReturns without the test of safetyConfig.dryRun of line 227
shouldCloseReturns_ignoresDryRun(c) ==
  /\ cycles[c].pc = "shouldClose"
  /\ \E r \in {"true", "false", "throws"} :
       IF r = "true"
         THEN cycles' = [cycles EXCEPT ![c].pc = "closing"]
         ELSE \E nxt \in PositionStops(cycles[c], activePositions) :
                cycles' = [cycles EXCEPT ![c] = nxt]
  /\ UNCHANGED <<strategies, running, killSwitch, dryRun, monitoringInterval, armed,
                 positionHistory, now, executionCount, signalCount, activePositions,
                 nextPos, startsInInit>>

\* `await strategy.shouldClose(positionId)` settles in cycle c: lines 226-247
shouldCloseReturns(c) ==
  /\ cycles[c].pc = "shouldClose"
  /\ \E r \in {"true", "false", "throws"} :
       IF r = "true" /\ ~dryRun
         THEN cycles' = [cycles EXCEPT ![c].pc = "closing"]
         ELSE \E nxt \in PositionStops(cycles[c], activePositions) :
                cycles' = [cycles EXCEPT ![c] = nxt]
  /\ UNCHANGED <<strategies, running, killSwitch, dryRun, monitoringInterval, armed,
                 positionHistory, now, executionCount, signalCount, activePositions,
                 nextPos, startsInInit>>

\* `await hedgeEngine.closeHedgePosition(positionId)` settles in cycle c: lines 236-247
closeReturns(c) ==
  /\ cycles[c].pc = "closing"
  /\ \E r \in {"closed", "throws"} :
       /\ activePositions' =
            IF r = "closed"
              THEN [activePositions EXCEPT ![cycles[c].s] = @ \ {cycles[c].p}]
              ELSE activePositions
       /\ \E nxt \in PositionStops(cycles[c], activePositions') :
            cycles' = [cycles EXCEPT ![c] = nxt]
  /\ UNCHANGED <<strategies, running, killSwitch, dryRun, monitoringInterval, armed,
                 positionHistory, now, executionCount, signalCount, nextPos,
                 startsInInit>>

\* activateKillSwitch without its `if (this.running) this.stop()`
activateKillSwitch_flagOnly ==
  /\ killSwitch' = TRUE
  /\ UNCHANGED <<running, armed, monitoringInterval, activePositions>>
  /\ UNCHANGED <<strategies, dryRun, positionHistory, now, executionCount, signalCount,
                 nextPos, cycles, startsInInit>>

activateKillSwitch ==
  /\ killSwitch' = TRUE
  /\ IF running
       THEN StopNow
       ELSE UNCHANGED <<running, armed, monitoringInterval, activePositions>>
  /\ UNCHANGED <<strategies, dryRun, positionHistory, now, executionCount, signalCount,
                 nextPos, cycles, startsInInit>>

deactivateKillSwitch ==
  /\ killSwitch' = FALSE
  /\ UNCHANGED <<strategies, running, dryRun, monitoringInterval, armed, positionHistory,
                 now, executionCount, signalCount, activePositions, nextPos, cycles,
                 startsInInit>>

setDryRun(enabled) ==
  /\ dryRun' = enabled
  /\ UNCHANGED <<strategies, running, killSwitch, monitoringInterval, armed,
                 positionHistory, now, executionCount, signalCount, activePositions,
                 nextPos, cycles, startsInInit>>

\* updateSafetyConfig with a partial config that carries the two flags
updateSafetyConfig(kill, dry) ==
  /\ killSwitch' = kill
  /\ dryRun' = dry
  /\ UNCHANGED <<strategies, running, monitoringInterval, armed, positionHistory, now,
                 executionCount, signalCount, activePositions, nextPos, cycles,
                 startsInInit>>

\* the clock advances
clockAdvances ==
  /\ now < MaxTime
  /\ now' = now + 1
  /\ UNCHANGED <<strategies, running, killSwitch, dryRun, monitoringInterval, armed,
                 positionHistory, executionCount, signalCount, activePositions, nextPos,
                 cycles, startsInInit>>

InitEngine ==
  /\ strategies = <<>>
  /\ running = FALSE
  /\ killSwitch = FALSE
  /\ dryRun = FALSE
  /\ monitoringInterval = 0
  /\ armed = {}
  /\ positionHistory = <<>>
  /\ now = 0
  /\ executionCount = 0
  /\ signalCount = 0
  /\ activePositions = [s \in StrategyIds |-> {}]
  /\ nextPos = 1
  /\ cycles = [c \in CycleIds |-> IdleCycle]
  /\ startsInInit = 0
  /\ startOutcome = "none"
  /\ cycleRuns = 0

(***************************************************************************)
(* Errors (utils/errors): the kinds, isRetryableError and getRetryDelay.   *)
(***************************************************************************)
ErrorKinds ==
  {"Error", "TradingError", "NetworkError", "RateLimitError", "SlippageError",
   "InsufficientFundsError", "TransactionTimeoutError", "TransactionConfirmationError",
   "PoolError", "AtomicExecutionError", "ValidationError", "RiskLimitError"}

\* an error as executeOrder reads it: its class and, for a RateLimitError, retryAfter
Err(kind, retryAfter) == [kind |-> kind, retryAfter |-> retryAfter]

NoError == [kind |-> "none", retryAfter |-> 0]

\* isRetryableError with TransactionConfirmationError among the retryable kinds
isRetryableError_withConfirmation(error) ==
  error.kind \in {"NetworkError", "RateLimitError", "TransactionTimeoutError",
                  "TransactionConfirmationError"}

isRetryableError(error) ==
  error.kind \in {"NetworkError", "RateLimitError", "TransactionTimeoutError"}

RETRY_DELAYS == <<2000, 4000, 8000, 16000>>

\* delays[Math.min(attemptNumber, delays.length - 1)], the array being 0-based
getRetryDelay(attemptNumber) ==
  RETRY_DELAYS[(IF attemptNumber < Len(RETRY_DELAYS) - 1
                  THEN attemptNumber ELSE Len(RETRY_DELAYS) - 1) + 1]

(***************************************************************************)
(* OrderExecutor: constants, inputs and state.                             *)
(***************************************************************************)
MAX_RETRIES == 4
DEFAULT_MAX_SLIPPAGE == 2

\* DEFAULT_TIMEOUT (30000 ms) in units of the 1000 ms poll sleep
TimeoutTicks == 2
\* largest retryAfter, in seconds, a RateLimitError is given
MaxRetryAfter == 2

Legs == {"long", "short"}

Order(orderType, side, amount, price, poolAddress) ==
  [orderType |-> orderType, side |-> side, amount |-> amount, price |-> price,
   poolAddress |-> poolAddress]

\* the orders a leg is called with; price 0 stands for an order without a price
\* and "" for one without a pool address (both are falsy in the code's tests)
LegOrders(side) ==
  {Order("MARKET", side, 1000, 0, "pool"), Order("MARKET", side, 2000, 100, "pool"),
   Order("MARKET", side, 0, 0, "pool"), Order("MARKET", side, 1000, 0, ""),
   Order("LIMIT", side, 1000, 0, "pool")}
    \cup {Order(t, side, 1000, 100, "pool") : t \in {"LIMIT", "STOP_LOSS", "TAKE_PROFIT"}}

\* what walletStore.checkUsdcBalance may return
Balances == {500, 5000}
\* what marketDataService.getCurrentPrice may return
Prices == {98, 100, 103, 529}
\* what a message of a rejected venue or RPC call may contain, as executeMarketOrder
\* tests it: "429" or "rate limit", "timeout" or "timed out", neither
MessageClasses == {"rate limit", "timeout", "other"}
\* what connection.getSignatureStatus may answer
SignatureStatuses == {"pending", "confirmed", "confirmed_err", "throws"}

VARIABLES
  \* ---- OrderExecutor ----
  hpc,           \* where executeHedgeOrders is: "idle", "long", "short", "returned"
  hResult,       \* the HedgeExecutionResult it returned
  ex,            \* the executeOrder call of each leg
  orderRecords,  \* prisma.order: the records created, in order of creation
  venueLog,      \* the depositLiquidity calls made, in order
  ohpc,          \* where HedgeEngine.openHedgePosition is
  oh             \* what openHedgePosition was called with, has read and has thrown

execVars == <<hpc, hResult, ex, orderRecords, venueLog, ohpc, oh>>

NoResult == [success |-> FALSE, signature |-> <<>>, fee |-> 0, error |-> NoError,
             retryAttempts |-> -1]

\* an executeOrder call: its order, where it is suspended (pc), its locals
\* (retryAttempt, lastError, dbOrder, signature), the state of the
\* waitForConfirmation it is in (elapsed, waitOutcome), and the bookkeeping of the
\* model: the attempts begun, the sleeps taken, whether a poll answered
\* "confirmed with an error"
IdleCall ==
  [pc |-> "idle", order |-> Order("MARKET", "BUY", 0, 0, ""), retryAttempt |-> 0,
   lastError |-> NoError, dbOrder |-> 0, signature |-> <<>>,
   elapsed |-> 0, waitOutcome |-> "none", sawConfirmedErr |-> FALSE,
   attempts |-> 0, slept |-> <<>>, result |-> NoResult]

abs(x) == IF x < 0 THEN -x ELSE x

RECURSIVE Has429(_)
\* whether the decimal digits of n contain "429"
Has429(n) == n >= 429 /\ (n % 1000 = 429 \/ Has429(n \div 10))

\* order.amount * 0.001, for the amounts of the model (multiples of 1000)
Fee(amount) == amount \div 1000

(***************************************************************************)
(* OrderExecutor.executeOrder.                                             *)
(***************************************************************************)
\* the catch block of executeOrder, lines 105-130: return at once, or sleep
CatchDecision(error, retryAttempt) ==
  IF ~isRetryableError(error)
    THEN [act |-> "return", delay |-> 0]
    ELSE [act |-> "sleep",
          delay |-> IF error.kind = "RateLimitError" /\ error.retryAfter > 0
                      THEN error.retryAfter * 1000
                      ELSE getRetryDelay(retryAttempt)]

\* the loop test of executeOrder with `<` in the place of `<=`
LoopContinues_strict(retryAttempt) == retryAttempt < MAX_RETRIES

\* the loop test of executeOrder, line 72
LoopContinues(retryAttempt) == retryAttempt <= MAX_RETRIES

\* FailedResult with the failed attempt counted among the retries
FailedResult_countsAttempt(error, retryAttempts) ==
  [success |-> FALSE, signature |-> <<>>, fee |-> 0, error |-> error,
   retryAttempts |-> retryAttempts + 1]

\* the result of the return in the catch block, lines 112-116
FailedResult(error, retryAttempts) ==
  [success |-> FALSE, signature |-> <<>>, fee |-> 0, error |-> error,
   retryAttempts |-> retryAttempts]

\* the call after its catch block has handled `error` (the record of the attempt,
\* if one was created, is not touched)
Caught(call, error) ==
  LET d == CatchDecision(error, call.retryAttempt) IN
    IF d.act = "return"
      THEN [call EXCEPT !.pc = "returned", !.lastError = error,
                        !.result = FailedResult(error, call.retryAttempt)]
      ELSE [call EXCEPT !.pc = "sleep", !.lastError = error,
                        !.slept = Append(@, d.delay)]

\* the catch block of executeMarketOrder, lines 283-307: an error whose message
\* holds "429" or "rate limit" becomes a RateLimitError with retryAfter 0, one
\* whose message holds "timeout" or "timed out" a TransactionTimeoutError
wrapRpcError(kind, messageClass) ==
  IF messageClass = "rate limit"
    THEN Err("RateLimitError", 0)
    ELSE IF messageClass = "timeout"
      THEN Err("TransactionTimeoutError", 0)
      ELSE Err(kind, 0)

\* the integer part of the slippage in percent (the reference prices of the model
\* make the slippage a whole number)
SlippagePercent(currentPrice, price) == (abs(currentPrice - price) * 100) \div price

\* the class of the message `Slippage exceeded: ${slippage.toFixed(2)}%`
SlippageMessageClass(pct) == IF Has429(pct) THEN "rate limit" ELSE "other"

\* a call as executeOrder begins it
Started(order) == [IdleCall EXCEPT !.order = order, !.pc = "validate", !.attempts = 1]

\* a call that has returned, as its caller holds it: the order and the result
Settled(call) == [IdleCall EXCEPT !.order = call.order, !.pc = "returned",
                                  !.result = call.result]

\* validateOrder, lines 372-394
validateOrder(l) ==
  /\ ex[l].pc = "validate"
  /\ \E balance \in Balances :
       LET o == ex[l].order IN
         ex' = [ex EXCEPT ![l] =
                  IF balance < o.amount
                    THEN Caught(@, Err("InsufficientFundsError", 0))
                    ELSE IF o.amount <= 0 \/ o.poolAddress = ""
                      THEN Caught(@, Err("Error", 0))
                      ELSE [@ EXCEPT !.pc = "create"]]
  /\ UNCHANGED <<hpc, hResult, orderRecords, venueLog, ohpc, oh>>

\* createOrderRecord, lines 399-413
createOrderRecord(l) ==
  /\ ex[l].pc = "create"
  /\ orderRecords' = Append(orderRecords, [leg |-> l, status |-> "PENDING"])
  /\ ex' = [ex EXCEPT ![l].pc = "dispatch", ![l].dbOrder = Len(orderRecords) + 1]
  /\ UNCHANGED <<hpc, hResult, venueLog, ohpc, oh>>

\* executeMarketOrder from its entry to the depositLiquidity call, lines 233-263:
\* `read` is what getCurrentPrice gave, a price or a rejection with a message
marketOrderStep(l, read) ==
  LET o == ex[l].order IN
    IF read.throws
      THEN /\ ex' = [ex EXCEPT ![l] = Caught(@, wrapRpcError("Error", read.message))]
           /\ UNCHANGED venueLog
      ELSE IF o.price # 0 /\ abs(read.price - o.price) * 100 > DEFAULT_MAX_SLIPPAGE * o.price
        THEN /\ ex' = [ex EXCEPT ![l] =
                         Caught(@, wrapRpcError("SlippageError",
                                     SlippageMessageClass(SlippagePercent(read.price, o.price))))]
             /\ UNCHANGED venueLog
        ELSE /\ ex' = [ex EXCEPT ![l].pc = "deposit"]
             /\ venueLog' = Append(venueLog, l)

\* what `await marketDataService.getCurrentPrice(pool)` may give
PriceReads ==
  {[throws |-> FALSE, price |-> p, message |-> "other"] : p \in Prices}
    \cup {[throws |-> TRUE, price |-> 0, message |-> m] : m \in MessageClasses}

\* the switch of executeOrder, lines 77-91, and for a LIMIT, STOP_LOSS or
\* TAKE_PROFIT order executeLimitOrder / executeConditionalOrder up to their call
\* of executeMarketOrder
dispatchOrder(l) ==
  /\ ex[l].pc = "dispatch"
  /\ LET o == ex[l].order IN
       \E read \in PriceReads :
         IF o.orderType = "MARKET"
           THEN marketOrderStep(l, read)
           ELSE /\ LET met == CASE o.orderType = "LIMIT" ->
                                     IF o.side = "BUY" THEN read.price <= o.price
                                                       ELSE read.price >= o.price
                                [] o.orderType = "STOP_LOSS" -> read.price <= o.price
                                [] OTHER -> read.price >= o.price
                   IN ex' = [ex EXCEPT ![l] =
                               IF read.throws \/ o.price = 0 \/ ~met
                                 THEN Caught(@, Err("Error", 0))
                                 ELSE [@ EXCEPT !.pc = "market"]]
                /\ UNCHANGED venueLog
  /\ UNCHANGED <<hpc, hResult, orderRecords, ohpc, oh>>

\* executeMarketOrder as executeLimitOrder and executeConditionalOrder call it
executeMarketOrder(l) ==
  /\ ex[l].pc = "market"
  /\ \E read \in PriceReads : marketOrderStep(l, read)
  /\ UNCHANGED <<hpc, hResult, orderRecords, ohpc, oh>>

\* `await depositLiquidity(...)` settles, lines 253-262: a signature, or an Error
\* whose message services/orcaLiquidity builds from the venue's
depositLiquidityReturns(l) ==
  /\ ex[l].pc = "deposit"
  /\ \/ ex' = [ex EXCEPT ![l].pc = "confirm", ![l].signature = <<l, ex[l].attempts>>,
                         ![l].elapsed = 0, ![l].waitOutcome = "polling",
                         ![l].sawConfirmedErr = FALSE]
     \/ \E m \in MessageClasses :
          ex' = [ex EXCEPT ![l] = Caught(@, wrapRpcError("Error", m))]
  /\ UNCHANGED <<hpc, hResult, orderRecords, venueLog, ohpc, oh>>

\* waitForConfirmation after `elapsed` of its timeout has passed: the loop test of
\* line 439 and the throw of lines 472-476, which executeMarketOrder rewraps
afterWait(call, elapsed, saw) ==
  IF elapsed < TimeoutTicks
    THEN [call EXCEPT !.elapsed = elapsed, !.sawConfirmedErr = saw]
    ELSE Caught([call EXCEPT !.elapsed = elapsed, !.sawConfirmedErr = saw,
                             !.waitOutcome = "TransactionTimeoutError"],
                wrapRpcError("TransactionTimeoutError", "timeout"))

\* one turn of the loop of waitForConfirmation, lines 439-469: the status call
\* takes `took` of the timeout and answers `status`
pollSignatureStatus(l) ==
  /\ ex[l].pc = "confirm"
  /\ \E status \in SignatureStatuses, took \in {0, 1} :
       LET e == IF ex[l].elapsed + took < TimeoutTicks
                  THEN ex[l].elapsed + took ELSE TimeoutTicks
       IN ex' = [ex EXCEPT ![l] =
            CASE status = "confirmed" ->
                   [@ EXCEPT !.pc = "update", !.elapsed = e, !.waitOutcome = "confirmed"]
              [] status = "confirmed_err" ->
                   \* the TransactionConfirmationError of line 447 is thrown inside
                   \* the try and caught at line 459
                   afterWait(@, e, TRUE)
              [] status = "throws" -> afterWait(@, e, @.sawConfirmedErr)
              [] OTHER ->
                   \* `await this.sleep(1000)`
                   afterWait(@, IF e + 1 < TimeoutTicks THEN e + 1 ELSE TimeoutTicks,
                             @.sawConfirmedErr)]
  /\ UNCHANGED <<hpc, hResult, orderRecords, venueLog, ohpc, oh>>

\* executeMarketOrder returns its result, updateOrderRecord (lines 418-428) marks
\* the record, executeOrder returns the result (lines 93-97)
updateOrderRecord(l) ==
  /\ ex[l].pc = "update"
  /\ orderRecords' = [orderRecords EXCEPT ![ex[l].dbOrder].status = "FILLED"]
  /\ ex' = [ex EXCEPT ![l].pc = "returned", ![l].elapsed = 0,
                      ![l].waitOutcome = "none", ![l].sawConfirmedErr = FALSE,
                      ![l].result = [success |-> TRUE, signature |-> ex[l].signature,
                                     fee |-> Fee(ex[l].order.amount), error |-> NoError,
                                     retryAttempts |-> ex[l].retryAttempt]]
  /\ UNCHANGED <<hpc, hResult, venueLog, ohpc, oh>>

\* the sleep of the catch block ends: retryAttempt++ and the loop test, then the
\* next attempt or the return of lines 136-140
sleepEnds(l) ==
  /\ ex[l].pc = "sleep"
  /\ LET call == ex[l] IN
       ex' = [ex EXCEPT ![l] =
                IF LoopContinues(call.retryAttempt + 1)
                  THEN [call EXCEPT !.retryAttempt = @ + 1, !.pc = "validate",
                                    !.attempts = @ + 1, !.elapsed = 0,
                                    !.waitOutcome = "none", !.sawConfirmedErr = FALSE]
                  ELSE [call EXCEPT !.retryAttempt = @ + 1, !.pc = "returned",
                                    !.result = FailedResult(call.lastError, MAX_RETRIES)]]
  /\ UNCHANGED <<hpc, hResult, orderRecords, venueLog, ohpc, oh>>

(***************************************************************************)
(* OrderExecutor.executeHedgeOrders.                                       *)
(***************************************************************************)
AtomicExecutionError(successfulOrders, failedOrders) ==
  [kind |-> "AtomicExecutionError", successfulOrders |-> successfulOrders,
   failedOrders |-> failedOrders]

NoHedgeError == [kind |-> "none", successfulOrders |-> <<>>, failedOrders |-> <<>>]

NoHedgeResult ==
  [success |-> FALSE, longOrder |-> NoResult, shortOrder |-> NoResult, totalFees |-> 0,
   error |-> NoHedgeError]

\* the catch block of executeHedgeOrders, lines 207-222
HedgeFailed(error) ==
  [success |-> FALSE,
   longOrder |-> [NoResult EXCEPT !.success = Len(error.successfulOrders) > 0,
                                  !.retryAttempts = 0],
   shortOrder |-> [NoResult EXCEPT !.retryAttempts = 0],
   totalFees |-> 0,
   error |-> error]

\* executeHedgeOrders reporting success whatever the short order came to
ShortSettled_reportsSuccess(longResult, shortResult) ==
  [success |-> TRUE, longOrder |-> longResult, shortOrder |-> shortResult,
   totalFees |-> longResult.fee + shortResult.fee, error |-> NoHedgeError]

\* executeHedgeOrders once the short order has returned, lines 174-206
ShortSettled(longResult, shortResult) ==
  IF ~shortResult.success
    THEN HedgeFailed(AtomicExecutionError(<<longResult.signature>>, <<"short">>))
    ELSE [success |-> TRUE, longOrder |-> longResult, shortOrder |-> shortResult,
          totalFees |-> longResult.fee + shortResult.fee, error |-> NoHedgeError]

\* executeHedgeOrders up to `await this.executeOrder(longOrder)`
executeHedgeOrders(longOrder, shortOrder) ==
  /\ hpc = "idle"
  /\ ohpc = "idle"
  /\ hpc' = "long"
  /\ ex' = [ex EXCEPT !["long"] = Started(longOrder),
                      !["short"] = [IdleCall EXCEPT !.order = shortOrder]]
  /\ UNCHANGED <<hResult, orderRecords, venueLog, ohpc, oh>>

\* the long order starting the short one whatever it returned
longOrderReturns_ignoresFailure ==
  /\ hpc = "long"
  /\ ex["long"].pc = "returned"
  /\ hpc' = "short"
  /\ ex' = [ex EXCEPT !["short"] = Started(@.order)]
  /\ UNCHANGED <<hResult, orderRecords, venueLog, ohpc, oh>>

\* the long order has returned, lines 156-172
longOrderReturns ==
  /\ hpc = "long"
  /\ ex["long"].pc = "returned"
  /\ IF ~ex["long"].result.success
       THEN /\ hResult' = HedgeFailed(AtomicExecutionError(<<>>, <<"long">>))
            /\ hpc' = "returned"
            /\ UNCHANGED ex
       ELSE /\ hpc' = "short"
            /\ ex' = [ex EXCEPT !["long"] = Settled(@), !["short"] = Started(@.order)]
            /\ UNCHANGED hResult
  /\ UNCHANGED <<orderRecords, venueLog, ohpc, oh>>

\* the short order has returned, lines 174-206
shortOrderReturns ==
  /\ hpc = "short"
  /\ ex["short"].pc = "returned"
  /\ hResult' = ShortSettled(ex["long"].result, ex["short"].result)
  /\ hpc' = "returned"
  /\ UNCHANGED <<ex, orderRecords, venueLog, ohpc, oh>>

(***************************************************************************)
(* HedgeEngine.openHedgePosition: the two deposits of lines 93-109.        *)
(***************************************************************************)
\* the limit of open positions, trading.limits.maxPositions of the configuration
MaxOpenPositions == 2

\* hedge.minRatio and hedge.maxRatio of the configuration, in percent
HedgeConfig == [minRatio |-> 50, maxRatio |-> 200]

\* what openHedgePosition may be called with and may read: the hedge ratio in
\* percent (1.0 for "delta-neutral", hedge.defaultRatio for "pairs"), the amount,
\* the USDC balance and the number of OPEN positions of the user
HedgeRatios == {25, 100, 300}
OpenAmounts == {100}
OpenBalances == {150, 201, 250}
OpenCounts == {0, MaxOpenPositions, MaxOpenPositions + 1}

\* validateHedgeRatio with the two limits themselves rejected
validateHedgeRatio_exclusive(ratio) ==
  ~(ratio <= HedgeConfig.minRatio \/ ratio >= HedgeConfig.maxRatio)

\* RiskManager.validateHedgeRatio
validateHedgeRatio(ratio) ==
  ~(ratio < HedgeConfig.minRatio \/ ratio > HedgeConfig.maxRatio)

\* checkSufficientBalance without its 1% buffer for fees
checkSufficientBalance_noBuffer(requiredAmount, availableBalance) ==
  ~(availableBalance < requiredAmount)

\* RiskManager.checkSufficientBalance: the amount, then the amount and 1% for fees
checkSufficientBalance(requiredAmount, availableBalance) ==
  /\ ~(availableBalance < requiredAmount)
  /\ ~(availableBalance * 100 < requiredAmount * 101)

\* RiskManager.validateMaxPositions
validateMaxPositions(currentPositions) == ~(currentPositions >= MaxOpenPositions)

\* the error openHedgePosition rejects with: `throw new Error(reason)` of lines
\* 63-80, or the error of a call it awaits, thrown again by the catch block of
\* lines 155-158 as it is
PlainError(reason) ==
  [kind |-> "Error", reason |-> reason, successfulOrders |-> <<>>,
   failedOrders |-> <<>>]

NoOpenError ==
  [kind |-> "none", reason |-> "none", successfulOrders |-> <<>>,
   failedOrders |-> <<>>]

NoOpen ==
  [ratio |-> 0, amount |-> 0, balance |-> 0, count |-> 0, error |-> NoOpenError,
   created |-> "none", subscribed |-> FALSE]

\* the first validation of lines 61-80 that fails, in the order of the code
Rejection(ratio, amount, balance, count) ==
  IF ~validateHedgeRatio(ratio) THEN "ratio"
  ELSE IF ~checkSufficientBalance(amount * 2, balance) THEN "balance"
  ELSE IF ~validateMaxPositions(count) THEN "maxPositions"
  ELSE "none"

\* openHedgePosition up to the deposit of the long side, lines 60-100: one of the
\* validations or lookups rejects, or the long deposit is called
openHedgePosition ==
  /\ ohpc = "idle"
  /\ hpc = "idle"
  /\ \E ratio \in HedgeRatios, amount \in OpenAmounts, balance \in OpenBalances,
        count \in OpenCounts, lookup \in {"ok", "throws"} :
       LET input == [NoOpen EXCEPT !.ratio = ratio, !.amount = amount,
                                   !.balance = balance, !.count = count]
           rejection == Rejection(ratio, amount, balance, count)
       IN IF rejection # "none"
            THEN /\ ohpc' = "failed"
                 /\ oh' = [input EXCEPT !.error = PlainError(rejection)]
                 /\ UNCHANGED venueLog
            ELSE IF lookup = "throws"
              THEN /\ ohpc' = "failed"
                   /\ oh' = [input EXCEPT !.error = PlainError("lookup")]
                   /\ UNCHANGED venueLog
              ELSE /\ ohpc' = "longDeposit"
                   /\ oh' = input
                   /\ venueLog' = Append(venueLog, "long")
  /\ UNCHANGED <<hpc, hResult, ex, orderRecords>>

\* the deposit of the long side settles, lines 94-109
longDepositReturns ==
  /\ ohpc = "longDeposit"
  /\ \/ /\ ohpc' = "failed"
        /\ oh' = [oh EXCEPT !.error = PlainError("long deposit")]
        /\ UNCHANGED venueLog
     \/ /\ ohpc' = "shortDeposit"
        /\ venueLog' = Append(venueLog, "short")
        /\ UNCHANGED oh
  /\ UNCHANGED <<hpc, hResult, ex, orderRecords>>

\* the deposit of the short side settles, lines 103-126: it rejects, or
\* createHedgePosition is called and rejects (with none or one of the rows
\* written), or the hedge is created and subscribed to the price updates of its
\* pool (lines 128-130)
shortDepositReturns ==
  /\ ohpc = "shortDeposit"
  /\ \/ /\ ohpc' = "failed"
        /\ oh' = [oh EXCEPT !.error = PlainError("short deposit")]
     \/ /\ ohpc' = "failed"
        /\ \E rows \in {"none", "one"} :
             oh' = [oh EXCEPT !.error = PlainError("create"), !.created = rows]
     \/ /\ ohpc' = "opened"
        /\ oh' = [oh EXCEPT !.created = "both", !.subscribed = TRUE]
  /\ UNCHANGED <<hpc, hResult, ex, orderRecords, venueLog>>

InitExec ==
  /\ hpc = "idle"
  /\ hResult = NoHedgeResult
  /\ ex = [l \in Legs |-> IdleCall]
  /\ orderRecords = <<>>
  /\ venueLog = <<>>
  /\ ohpc = "idle"
  /\ oh = NoOpen

(***************************************************************************)
(* isRetryableError, getRetryDelay and the retry decision of executeOrder  *)
(* as functions of the error and of retryAttempt.                          *)
(***************************************************************************)
VARIABLES
  rError,     \* the error an attempt failed with
  rAttempt,   \* retryAttempt at the failure
  rDecision   \* what executeOrder does then

retryVars == <<rError, rAttempt, rDecision>>

NoDecision ==
  [decided |-> FALSE, sleeps |-> FALSE, delay |-> 0, retries |-> FALSE,
   returned |-> NoResult]

\* a failure of every kind at every value retryAttempt takes in the loop
InitRetry ==
  /\ rAttempt \in 0..MAX_RETRIES
  /\ rError \in {Err(k, 0) : k \in ErrorKinds}
                  \cup {Err("RateLimitError", a) : a \in 1..MaxRetryAfter}
  /\ rDecision = NoDecision

InitRetryIdle ==
  /\ rAttempt = 0
  /\ rError = NoError
  /\ rDecision = NoDecision

\* the catch block and, after a sleep, the loop test
decideRetry ==
  /\ ~rDecision.decided
  /\ rError # NoError
  /\ LET d == CatchDecision(rError, rAttempt) IN
       rDecision' = [decided |-> TRUE,
                     sleeps |-> d.act = "sleep",
                     delay |-> d.delay,
                     retries |-> d.act = "sleep" /\ LoopContinues(rAttempt + 1),
                     returned |-> IF d.act = "return"
                                    THEN FailedResult(rError, rAttempt)
                                    ELSE IF LoopContinues(rAttempt + 1)
                                      THEN NoResult
                                      ELSE FailedResult(rError, MAX_RETRIES)]
  /\ UNCHANGED <<rError, rAttempt>>

(***************************************************************************)
(* The position store: the rows of prisma.position of one hedge, as        *)
(* PositionManager, HedgeEngine and RiskManager read and write them.       *)
(***************************************************************************)
\* operations on the store that may be in progress at the same time
MaxTasks == 2
\* the entry price and the amount of both sides of the hedge
EntryPrice == 100
PositionAmount == 1
\* stopLossPercent of the sweep, in percent
StopLossPercent == 10
\* hedgeConfig.rebalanceThreshold (0.05), in percent
RebalanceThresholdPercent == 5

\* what a price read or the currentPrices map may hold for the pool
PosPrices == {90, 110}
TaskIds == 1..MaxTasks

VARIABLES
  positions,   \* the two rows of the hedge, by side; status "NONE" before they exist
  tasks,       \* the operations in progress: what they have read and have still to do
  returned     \* what the operation that returned last gave back to its caller

posVars == <<positions, tasks, returned>>

NoPosition ==
  [status |-> "NONE", entryPrice |-> 0, amount |-> 0, currentPrice |-> 0,
   unrealizedPnl |-> 0, realizedPnl |-> 0, fees |-> 0]

\* an operation in progress: the positions it has still to write, in order (or in
\* any order for the two closePosition calls of a Promise.all), the price it
\* holds for each side, the number of items its listing gave, its closedCount and
\* the items (sides, or "hedge" for the hedge as a whole) that it failed to close
IdleTask ==
  [op |-> "none", pc |-> "idle", queue |-> <<>>, prices |-> [l \in Legs |-> 0],
   items |-> 0, closedCount |-> 0, failed |-> <<>>]

\* nothing returned yet
NoReturn ==
  [op |-> "none", threw |-> FALSE, items |-> 0, closedCount |-> 0,
   errors |-> <<>>, failed |-> <<>>]

BothSides == <<"long", "short">>

OpenSides == SelectSeq(BothSides, LAMBDA l : positions[l].status = "OPEN")

Created == \A l \in Legs : positions[l].status # "NONE"

NoneCreated == \A l \in Legs : positions[l].status = "NONE"

Without(queue, l) == SelectSeq(queue, LAMBDA x : x # l)

\* a new operation with the given work
NewTask(op, pc, queue, prices, items) ==
  [IdleTask EXCEPT !.op = op, !.pc = pc, !.queue = queue, !.prices = prices,
                   !.items = items]

PricePair(longPrice, shortPrice) ==
  [l \in Legs |-> IF l = "long" THEN longPrice ELSE shortPrice]

\* the operations whose catch block pushes the failure to errors[]:
\* emergencyCloseAllPositions (lines 304-311) and emergencyCloseAllHedgePositions
\* (lines 362-369); closePositionsExceedingStopLoss and emergencyExit only log it
RecordsErrors(op) ==
  op \in {"emergencyCloseAllPositions", "emergencyCloseAllHedgePositions"}

\* the value an operation gives back, with the items it failed to close; only the
\* two emergencyCloseAll operations return errors[], and emergencyExit is
\* Promise<void>
ReturnValue(task, threw) ==
  [op |-> task.op, threw |-> threw, items |-> task.items,
   closedCount |-> IF task.op = "emergencyExit" THEN 0 ELSE task.closedCount,
   errors |-> IF RecordsErrors(task.op) THEN task.failed ELSE <<>>,
   failed |-> task.failed]

\* the task after its write of position l has settled
Advance(task, l) ==
  IF Without(task.queue, l) = <<>>
    THEN IdleTask
    ELSE [task EXCEPT !.queue = Without(@, l)]

\* the task after the write of position l in one of its loops succeeded
Succeeded(task, l) ==
  [task EXCEPT !.queue = Without(@, l), !.closedCount = @ + 1]

\* Rejected with the failure ending the loop: the remaining items are dropped
Rejected_stopsBatch(task, l) ==
  [task EXCEPT !.queue = <<>>, !.failed = Append(@, l)]

\* the task after the write of position l in one of its loops was rejected: the
\* catch block of the loop body, then the next item
Rejected(task, l) ==
  [task EXCEPT !.queue = Without(@, l), !.failed = Append(@, l)]

\* the step of task t to `next`: the operation returns when nothing is left to do
Continue(t, next) ==
  IF next.queue = <<>>
    THEN /\ tasks' = [tasks EXCEPT ![t] = IdleTask]
         /\ returned' = ReturnValue(next, FALSE)
    ELSE /\ tasks' = [tasks EXCEPT ![t] = next]
         /\ UNCHANGED returned

\* task t rejects (throws to its caller)
Throw(t, task) ==
  /\ tasks' = [tasks EXCEPT ![t] = IdleTask]
  /\ returned' = ReturnValue(task, TRUE)

\* PositionManager.updatePositionPrice: no test of the status
updatePositionPrice(l, currentPrice) ==
  [positions EXCEPT ![l].currentPrice = currentPrice,
                    ![l].unrealizedPnl = (currentPrice - positions[l].entryPrice)
                                           * positions[l].amount]

\* PositionManager.closePosition: no test of the status
closePosition(l, exitPrice) ==
  [positions EXCEPT ![l].status = "CLOSED",
                    ![l].currentPrice = exitPrice,
                    ![l].realizedPnl = (exitPrice - positions[l].entryPrice)
                                         * positions[l].amount - positions[l].fees,
                    ![l].unrealizedPnl = 0]

\* the update of RiskManager.emergencyExit, lines 605-613: status (and closedAt) only
emergencyExitUpdate(l) == [positions EXCEPT ![l].status = "CLOSED"]

\* RiskManager.needsRebalancing for the values of the two sides, target ratio 1.0
needsRebalancing(longValue, shortValue) ==
  abs(longValue - shortValue) * 100 > RebalanceThresholdPercent * shortValue

\* the stop-loss test of closePositionsExceedingStopLoss, lines 402-414
shouldClose(l, currentPrice) ==
  LET priceDiff == currentPrice - positions[l].entryPrice IN
    /\ abs(priceDiff) * 100 >= StopLossPercent * positions[l].entryPrice
    /\ IF l = "long" THEN priceDiff < 0 ELSE priceDiff > 0

\* currentPrices.get(pool) || position.currentPrice || position.entryPrice
PriceFor(l, mapPrice) ==
  IF mapPrice # 0 THEN mapPrice
  ELSE IF positions[l].currentPrice # 0 THEN positions[l].currentPrice
  ELSE positions[l].entryPrice

\* a row as createPosition writes it: OPEN, currentPrice = entryPrice
NewPosition ==
  [status |-> "OPEN", entryPrice |-> EntryPrice,
   amount |-> PositionAmount, currentPrice |-> EntryPrice,
   unrealizedPnl |-> 0, realizedPnl |-> 0, fees |-> 0]

\* PositionManager.createHedgePosition: both rows, OPEN, currentPrice = entryPrice
createHedgePosition ==
  /\ NoneCreated
  /\ positions' = [l \in Legs |-> NewPosition]
  /\ UNCHANGED <<tasks, returned>>

\* PositionManager.createHedgePosition when the create of side `rejected` is
\* rejected: Promise.all rejects, the create of the other side is not undone
createHedgePositionRejects(rejected) ==
  /\ NoneCreated
  /\ positions' = [l \in Legs |-> IF l = rejected THEN NoPosition ELSE NewPosition]
  /\ UNCHANGED <<tasks, returned>>

\* the id that openHedgePosition returns and HedgeStrategy.execute tracks: the
\* hedgePositionId of the two rows, which is the id of neither row
HedgeId == "hedge"
\* the defaults of HedgeStrategy.shouldClose, in percent
StrategyStopLossPercent == 10
StrategyTakeProfitPercent == 5
\* the drift that makes shouldClose consider a close, and the loss it tolerates
CloseDriftPercent == 15
CloseMaxLossPercent == 3

\* PositionManager.getPosition: findUnique by the id of the row; NoPosition for null
getPosition(positionId) ==
  IF positionId \in Legs /\ positions[positionId].status # "NONE"
    THEN positions[positionId]
    ELSE NoPosition

\* SignalEngine.checkRebalanceNeeded gives a signal: the open rows of the hedge
\* positionId drifted from the target ratio 1.0 by more than the threshold
checkRebalanceNeeded(positionId, thresholdPercent, longPrice, shortPrice) ==
  /\ positionId = HedgeId
  /\ OpenSides = BothSides
  /\ LET longValue == positions["long"].amount * longPrice
         shortValue == positions["short"].amount * shortPrice
     IN abs(longValue - shortValue) * 100 > thresholdPercent * shortValue

\* HedgeStrategy.shouldClose for a tracked id, with the prices that
\* checkRebalanceNeeded reads
HedgeStrategyShouldClose(positionId, longPrice, shortPrice) ==
  LET position == getPosition(positionId)
      totalValue == position.amount * position.entryPrice
      pnl == position.unrealizedPnl
  IN IF position.status = "NONE"
       THEN FALSE
       ELSE \/ pnl * 100 <= -StrategyStopLossPercent * totalValue
            \/ pnl * 100 >= StrategyTakeProfitPercent * totalValue
            \/ /\ checkRebalanceNeeded(positionId, CloseDriftPercent, longPrice, shortPrice)
               /\ pnl * 100 > -CloseMaxLossPercent * totalValue

\* HedgeEngine.getPositionPnL up to its first updatePositionPrice, lines 254-272:
\* only the status of the long side is read
getPositionPnL(t, longPrice, shortPrice) ==
  /\ tasks[t] = IdleTask
  /\ Created
  /\ IF positions["long"].status = "OPEN"
       THEN /\ tasks' = [tasks EXCEPT ![t] =
                           NewTask("getPositionPnL", "update", BothSides,
                                   PricePair(longPrice, shortPrice), 0)]
            /\ UNCHANGED returned
       ELSE /\ returned' = ReturnValue(NewTask("getPositionPnL", "idle", <<>>,
                                                  PricePair(0, 0), 0), FALSE)
            /\ UNCHANGED tasks
  /\ UNCHANGED positions

\* HedgeEngine.rebalancePosition up to its updatePositionPrice, lines 204-245
rebalancePosition(t, longPrice, shortPrice) ==
  /\ tasks[t] = IdleTask
  /\ Len(OpenSides) = 2
  /\ LET longValue == positions["long"].amount * longPrice
         shortValue == positions["short"].amount * shortPrice
     IN IF needsRebalancing(longValue, shortValue)
          THEN /\ tasks' = [tasks EXCEPT ![t] =
                              NewTask("rebalancePosition", "update",
                                      IF longValue > shortValue
                                        THEN <<"long">> ELSE <<"short">>,
                                      PricePair(longPrice, shortPrice), 0)]
               /\ UNCHANGED returned
          ELSE /\ returned' = ReturnValue(NewTask("rebalancePosition", "idle", <<>>,
                                                     PricePair(longPrice, shortPrice), 0),
                                             FALSE)
               /\ UNCHANGED tasks
  /\ UNCHANGED positions

\* an `await this.positionManager.updatePositionPrice(...)` of getPositionPnL or
\* rebalancePosition settles
updatePositionPriceReturns(t) ==
  /\ tasks[t].pc = "update"
  /\ LET l == Head(tasks[t].queue) IN
       /\ positions' = updatePositionPrice(l, tasks[t].prices[l])
       /\ Continue(t, [tasks[t] EXCEPT !.queue = Without(@, l)])

\* an updatePositionPrice of getPositionPnL or rebalancePosition is rejected: both
\* log and throw again (lines 248-250, 287-289)
updatePositionPriceRejects(t) ==
  /\ tasks[t].pc = "update"
  /\ Throw(t, [tasks[t] EXCEPT !.failed = Append(@, Head(tasks[t].queue))])
  /\ UNCHANGED positions

\* HedgeEngine.closeHedgePosition up to its call of PositionManager.closeHedgePosition,
\* lines 161-190 (commands, the automation engine and monitorPosition call it)
closeHedgePosition(t, longPrice, shortPrice) ==
  /\ tasks[t] = IdleTask
  /\ Len(OpenSides) = 2
  /\ tasks' = [tasks EXCEPT ![t] =
                 NewTask("closeHedgePosition", "find", BothSides,
                         PricePair(longPrice, shortPrice), 1)]
  /\ UNCHANGED <<positions, returned>>

\* PositionManager.emergencyCloseAllHedgePositions up to its closeHedgePosition,
\* lines 335-354: getHedgePositions gives the hedge when both sides are OPEN
emergencyCloseAllHedgePositions(t, mapPrice) ==
  /\ tasks[t] = IdleTask
  /\ Len(OpenSides) = 2
  /\ tasks' = [tasks EXCEPT ![t] =
                 NewTask("emergencyCloseAllHedgePositions", "find", BothSides,
                         [l \in Legs |-> IF mapPrice # 0 THEN mapPrice
                                         ELSE positions[l].entryPrice], 1)]
  /\ UNCHANGED <<positions, returned>>

\* emergencyCloseAllHedgePositions when getHedgePositions lists no hedge (lines
\* 130-160: a group is listed only with an OPEN long row and an OPEN short row):
\* the loop has nothing to do and the call returns closedCount 0 and no errors
emergencyCloseAllFindsNoHedge(t) ==
  /\ tasks[t] = IdleTask
  /\ Len(OpenSides) # 2
  /\ returned' = ReturnValue(NewTask("emergencyCloseAllHedgePositions", "idle", <<>>,
                                     [l \in Legs |-> 0], 0), FALSE)
  /\ UNCHANGED <<positions, tasks>>

\* the caller of PositionManager.closeHedgePosition when that call is rejected:
\* HedgeEngine.closeHedgePosition throws again (lines 198-201), the loop of
\* emergencyCloseAllHedgePositions pushes to errors[] and goes on (lines 362-369)
HedgeCloseRejected(t, task) ==
  /\ tasks' = [tasks EXCEPT ![t] = IdleTask]
  /\ returned' = ReturnValue([task EXCEPT !.failed = Append(@, "hedge")],
                             ~RecordsErrors(task.op))

\* PositionManager.closeHedgePosition, lines 216-233: the OPEN rows are read again,
\* then both closePosition calls are made
closeHedgeFinds(t) ==
  /\ tasks[t].pc = "find"
  /\ IF Len(OpenSides) = 2
       THEN /\ tasks' = [tasks EXCEPT ![t] = [@ EXCEPT !.pc = "closeAll"]]
            /\ UNCHANGED returned
       ELSE HedgeCloseRejected(t, tasks[t])
  /\ UNCHANGED positions

\* PositionManager.closePositionsExceedingStopLoss up to its first closePosition,
\* lines 394-418
closePositionsExceedingStopLoss(t, mapPrice) ==
  /\ tasks[t] = IdleTask
  /\ Created
  /\ LET due == SelectSeq(OpenSides, LAMBDA l : shouldClose(l, PriceFor(l, mapPrice)))
         task == NewTask("closePositionsExceedingStopLoss", "closeNext", due,
                         [l \in Legs |-> PriceFor(l, mapPrice)], Len(due))
     IN Continue(t, task)
  /\ UNCHANGED positions

\* PositionManager.emergencyCloseAllPositions up to its first closePosition,
\* lines 285-298
emergencyCloseAllPositions(t, mapPrice) ==
  /\ tasks[t] = IdleTask
  /\ OpenSides # <<>>
  /\ tasks' = [tasks EXCEPT ![t] =
                 NewTask("emergencyCloseAllPositions", "closeNext", OpenSides,
                         [l \in Legs |-> PriceFor(l, mapPrice)], Len(OpenSides))]
  /\ UNCHANGED <<positions, returned>>

\* a closePosition call settles: the next one of a loop, either one of the two
\* that closeHedgePosition awaits together, or one that is still in flight after
\* the other one of the two was rejected
closePositionReturns(t, l) ==
  /\ positions' = closePosition(l, tasks[t].prices[l])
  /\ \/ /\ tasks[t].pc = "closeNext" /\ l = Head(tasks[t].queue)
        /\ Continue(t, Succeeded(tasks[t], l))
     \/ /\ tasks[t].pc = "closeAll" /\ l \in Range(tasks[t].queue)
        /\ Continue(t, [tasks[t] EXCEPT !.queue = Without(@, l),
                                        !.closedCount =
                                           IF Without(tasks[t].queue, l) = <<>>
                                             THEN 1 ELSE @])
     \/ /\ tasks[t].pc = "inFlight" /\ l \in Range(tasks[t].queue)
        /\ tasks' = [tasks EXCEPT ![t] = IdleTask]
        /\ UNCHANGED returned

\* a closePosition call is rejected: the catch block of a loop takes it and the
\* loop goes on; Promise.all rejects at once and leaves the other call in flight
closePositionRejects(t, l) ==
  /\ UNCHANGED positions
  /\ \/ /\ tasks[t].pc = "closeNext" /\ l = Head(tasks[t].queue)
        /\ Continue(t, Rejected(tasks[t], l))
     \/ /\ tasks[t].pc = "closeAll" /\ l \in Range(tasks[t].queue)
        /\ LET rest == Without(tasks[t].queue, l)
           IN /\ returned' = ReturnValue([tasks[t] EXCEPT !.failed = Append(@, "hedge")],
                                         ~RecordsErrors(tasks[t].op))
              /\ tasks' = [tasks EXCEPT ![t] =
                             IF rest = <<>> THEN IdleTask
                             ELSE [IdleTask EXCEPT !.op = tasks[t].op,
                                                   !.pc = "inFlight",
                                                   !.queue = rest,
                                                   !.prices = tasks[t].prices]]
     \/ /\ tasks[t].pc = "inFlight" /\ l \in Range(tasks[t].queue)
        /\ tasks' = [tasks EXCEPT ![t] = IdleTask]
        /\ UNCHANGED returned

\* RiskManager.emergencyExit up to its first update, lines 583-604
emergencyExit(t) ==
  /\ tasks[t] = IdleTask
  /\ OpenSides # <<>>
  /\ tasks' = [tasks EXCEPT ![t] =
                 NewTask("emergencyExit", "exit", OpenSides,
                         PricePair(0, 0), Len(OpenSides))]
  /\ UNCHANGED <<positions, returned>>

\* an update of emergencyExit settles, lines 605-616
emergencyExitUpdates(t) ==
  /\ tasks[t].pc = "exit"
  /\ LET l == Head(tasks[t].queue) IN
       /\ positions' = emergencyExitUpdate(l)
       /\ Continue(t, Succeeded(tasks[t], l))

\* an update of emergencyExit is rejected, lines 616-619: logged, the loop goes on
emergencyExitUpdateRejects(t) ==
  /\ tasks[t].pc = "exit"
  /\ Continue(t, Rejected(tasks[t], Head(tasks[t].queue)))
  /\ UNCHANGED positions

InitPos ==
  /\ positions = [l \in Legs |-> NoPosition]
  /\ tasks = [t \in TaskIds |-> IdleTask]
  /\ returned = NoReturn

(***************************************************************************)
(* The price feed of one pool (OrcaWebSocketManager) and its subscribers:   *)
(* the monitorPosition callbacks that HedgeEngine.openHedgePosition         *)
(* subscribes for the hedges it opens, and the recordPrice callback of      *)
(* SignalEngine.startMonitoring.                                           *)
(***************************************************************************)
MAX_RECONNECT_ATTEMPTS == 4

\* at most this many reconnect timeouts are pending at a time
MaxPendingReconnects == 1

\* the hedges opened on the pool
Groups == {"g1", "g2"}
\* the callbacks that may be subscribed to the pool
Subscribers == Groups \cup {"signal"}
\* the prices a fetch may give; the hedges were entered at EntryPrice
FeedPrices == {90, 100, 110}

VARIABLES
  pollingIntervals,   \* the callback that the interval of the pool calls, or "none"
  fetches,            \* the callbacks with a fetchAndEmitPrice in flight
  reconnectAttempts,  \* reconnectAttempts.get(pool)
  reconnectTimers,    \* the reconnect timeouts pending: callback and attempts read
  groupStatus,        \* status of the positions of each hedge: NONE, OPEN or CLOSED
  subscribedTo        \* the callbacks that were subscribed to the pool

feedVars == <<pollingIntervals, fetches, reconnectAttempts, reconnectTimers,
              groupStatus, subscribedTo>>

\* RiskManager.shouldTriggerStopLossWithDefault: 10% against the entry price
shouldTriggerStopLossWithDefault(currentPrice, entryPrice, side) ==
  LET priceDiff == currentPrice - entryPrice IN
    /\ abs(priceDiff) * 100 >= StopLossPercent * entryPrice
    /\ IF side = "long" THEN priceDiff < 0 ELSE priceDiff > 0

\* OrcaWebSocketManager.startPolling: the interval of the pool is cleared and
\* replaced by one that calls `callback`; a first fetch is started
startPolling(callback) ==
  /\ pollingIntervals' = callback
  /\ fetches' = fetches \cup {callback}

\* HedgeEngine.openHedgePosition, lines 111-130: the hedge is created and its
\* monitorPosition callback is subscribed to the pool
subscribeHedge(g) ==
  /\ groupStatus[g] = "NONE"
  /\ groupStatus' = [groupStatus EXCEPT ![g] = "OPEN"]
  /\ subscribedTo' = subscribedTo \cup {g}
  /\ startPolling(g)
  /\ UNCHANGED <<reconnectAttempts, reconnectTimers>>

\* SignalEngine.startMonitoring: recordPrice is subscribed to the pool
startMonitoring ==
  /\ "signal" \notin subscribedTo
  /\ subscribedTo' = subscribedTo \cup {"signal"}
  /\ startPolling("signal")
  /\ UNCHANGED <<reconnectAttempts, reconnectTimers, groupStatus>>

\* the interval of the pool fires: fetchAndEmitPrice for its callback
pollingIntervalFires ==
  /\ pollingIntervals # "none"
  /\ fetches' = fetches \cup {pollingIntervals}
  /\ UNCHANGED <<pollingIntervals, reconnectAttempts, reconnectTimers, groupStatus,
                 subscribedTo>>

\* HedgeEngine.monitorPosition for hedge g at the price of the update: a breach of
\* the stop-loss of one of the sides closes the hedge, unless the close rejects
monitorPosition(g, currentPrice, closes) ==
  IF /\ groupStatus[g] = "OPEN"
     /\ \E side \in Legs : shouldTriggerStopLossWithDefault(currentPrice, EntryPrice, side)
     /\ closes
    THEN [groupStatus EXCEPT ![g] = "CLOSED"]
    ELSE groupStatus

\* fetchAndEmitPrice, lines 79-87: the price is fetched and the callback is called
fetchAndEmitPrice(callback, price, closes) ==
  /\ callback \in fetches
  /\ fetches' = fetches \ {callback}
  /\ groupStatus' = IF callback \in Groups
                      THEN monitorPosition(callback, price, closes)
                      ELSE groupStatus
  /\ reconnectAttempts' = 0
  /\ UNCHANGED <<pollingIntervals, reconnectTimers, subscribedTo>>

\* fetchAndEmitPrice, lines 88-94, and handleReconnect: the fetch rejects; emit
\* of "error" throws before handleReconnect when the emitter has no listener
fetchRejects(callback, errorListener) ==
  /\ callback \in fetches
  /\ Cardinality(reconnectTimers) < MaxPendingReconnects
  /\ fetches' = fetches \ {callback}
  /\ reconnectTimers' =
       IF ~errorListener \/ reconnectAttempts >= MAX_RECONNECT_ATTEMPTS
         THEN reconnectTimers
         ELSE reconnectTimers \cup {<<callback, reconnectAttempts>>}
  /\ UNCHANGED <<pollingIntervals, reconnectAttempts, groupStatus, subscribedTo>>

\* the timeout of handleReconnect fires, lines 131-134: connect, startPolling
reconnectTimerFires(timer) ==
  /\ timer \in reconnectTimers
  /\ reconnectTimers' = reconnectTimers \ {timer}
  /\ reconnectAttempts' = timer[2] + 1
  /\ startPolling(timer[1])
  /\ UNCHANGED <<groupStatus, subscribedTo>>

InitFeed ==
  /\ pollingIntervals = "none"
  /\ fetches = {}
  /\ reconnectAttempts = 0
  /\ reconnectTimers = {}
  /\ groupStatus = [g \in Groups |-> "NONE"]
  /\ subscribedTo = {}

(***************************************************************************)
(* GracefulShutdown and setupGlobalErrorHandling: the callbacks registered *)
(* for persistence, the automation engine and the market data, and the      *)
(* shutdown that a process-level event starts.                             *)
(***************************************************************************)
\* the events whose handlers call gracefulShutdown.shutdown, with the exit code
ShutdownEvents == {"uncaughtException", "unhandledRejection", "SIGTERM", "SIGINT"}
\* what setupGlobalErrorHandling may be given as marketData: nothing, an object
\* with a disconnectAll method, an object without one
MarketDataArgs == {"none", "disconnectAll", "noDisconnectAll"}
\* process.exit was not called
NotExited == -1
\* events that arrive while a shutdown is in progress
MaxSkippedEvents == 1

VARIABLES
  shutdownCallbacks,  \* the callbacks of gracefulShutdown, in the order registered
  handlersInstalled,  \* setupGlobalErrorHandling has run
  marketDataArg,      \* the marketData object that was given
  isShuttingDown,     \* GracefulShutdown.isShuttingDown
  shutdownAt,         \* index of the callback that shutdown awaits, 0 when none
  shutdownSteps,      \* the callbacks that settled, in order, with what they did
  loopRunning,        \* automationEngine.isRunning()
  exitCode            \* the code given to process.exit, NotExited before

shutdownVars == <<shutdownCallbacks, handlersInstalled, marketDataArg, isShuttingDown,
                  shutdownAt, shutdownSteps, loopRunning, exitCode>>

\* the order in which setupGlobalErrorHandling registers its callbacks
RegistrationOrder == <<"prisma", "automationEngine", "marketData">>

\* the exit code that the handler of an event passes to shutdown
ExitCodeOf(event) ==
  IF event \in {"uncaughtException", "unhandledRejection"} THEN 1 ELSE 0

\* setupGlobalErrorHandling: the callbacks are registered in the order prisma,
\* automationEngine, marketData, each only if the argument was given
setupGlobalErrorHandling(prisma, automationEngine, marketData, engineRuns) ==
  /\ ~handlersInstalled
  /\ handlersInstalled' = TRUE
  /\ shutdownCallbacks' =
       SelectSeq(RegistrationOrder,
                 LAMBDA c : \/ c = "prisma" /\ prisma
                            \/ c = "automationEngine" /\ automationEngine
                            \/ c = "marketData" /\ marketData # "none")
  /\ marketDataArg' = marketData
  /\ loopRunning' = (automationEngine /\ engineRuns)
  /\ UNCHANGED <<isShuttingDown, shutdownAt, shutdownSteps, exitCode>>

\* what a callback does when it returns: "done" when it made its call, "skipped"
\* when its test found nothing to call
CallbackDoes(callback) ==
  IF callback = "automationEngine" THEN (IF loopRunning THEN "done" ELSE "skipped")
  ELSE IF callback = "marketData"
    THEN (IF marketDataArg = "disconnectAll" THEN "done" ELSE "skipped")
  ELSE "done"

\* the index of the callback that follows index i, in registration order
NextCallback_registrationOrder(i) ==
  IF i = 0 THEN (IF shutdownCallbacks = <<>> THEN 0 ELSE 1)
  ELSE IF i = Len(shutdownCallbacks) THEN 0 ELSE i + 1

\* the index of the callback that follows index i in the loop of shutdown, lines
\* 36-44: from the last one registered down to the first; 0 when the loop is over
NextCallback(i) ==
  IF i = 0 THEN Len(shutdownCallbacks) ELSE i - 1

\* GracefulShutdown.shutdown called by the handler of an event, up to its first
\* await; with no callback registered it runs to process.exit
shutdown(event) ==
  /\ handlersInstalled
  /\ exitCode = NotExited
  /\ ~isShuttingDown
  /\ isShuttingDown' = TRUE
  /\ shutdownAt' = NextCallback(0)
  /\ exitCode' = IF NextCallback(0) = 0 THEN ExitCodeOf(event) ELSE NotExited
  /\ shutdownSteps' = <<[step |-> "shutdown", did |-> event]>>
  /\ UNCHANGED <<shutdownCallbacks, handlersInstalled, marketDataArg, loopRunning>>

\* an event while a shutdown is in progress: lines 27-30, nothing is done
shutdownSkipped(event) ==
  /\ handlersInstalled
  /\ exitCode = NotExited
  /\ isShuttingDown
  /\ Len(SelectSeq(shutdownSteps, LAMBDA s : s.step = "skipped")) < MaxSkippedEvents
  /\ shutdownSteps' = Append(shutdownSteps, [step |-> "skipped", did |-> event])
  /\ UNCHANGED <<shutdownCallbacks, handlersInstalled, marketDataArg, isShuttingDown,
                 shutdownAt, loopRunning, exitCode>>

\* the code with which the shutdown in progress exits: that of the event that
\* started it
PendingExitCode == ExitCodeOf(shutdownSteps[1].did)

\* `await callback()` of shutdown settles: the callback returned or threw; the
\* loop goes on, and after the last callback the process exits (lines 46-50)
callbackSettles(threw) ==
  /\ shutdownAt > 0
  /\ LET callback == shutdownCallbacks[shutdownAt]
         did == IF threw THEN "threw" ELSE CallbackDoes(callback)
     IN /\ shutdownSteps' = Append(shutdownSteps, [step |-> callback, did |-> did])
        /\ loopRunning' = IF callback = "automationEngine" /\ did = "done"
                            THEN FALSE ELSE loopRunning
        /\ shutdownAt' = NextCallback(shutdownAt)
        /\ exitCode' = IF NextCallback(shutdownAt) = 0 THEN PendingExitCode ELSE NotExited
  /\ UNCHANGED <<shutdownCallbacks, handlersInstalled, marketDataArg, isShuttingDown>>

InitShutdown ==
  /\ shutdownCallbacks = <<>>
  /\ handlersInstalled = FALSE
  /\ marketDataArg = "none"
  /\ isShuttingDown = FALSE
  /\ shutdownAt = 0
  /\ shutdownSteps = <<>>
  /\ loopRunning = FALSE
  /\ exitCode = NotExited

(***************************************************************************)
(* The monitoring cycle with the calls that rejected: which awaited call   *)
(* of which cycle threw in the step just taken.                            *)
(***************************************************************************)
\* hedge ids that the strategies may hand out while the throws are followed
MaxCyclePos == 2

\* config.parameters.maxPositionSize of a strategy; 0 when the parameter is not set
ConfiguredSizes == {0, 1500}
\* the size calculatePositionSize() returns when the parameter is not set
DefaultPositionSize == 1000

VARIABLES
  thrown,          \* the awaited call that has just thrown, NoThrow after any other step
  maxPositionSize  \* config.parameters.maxPositionSize of each strategy

cycleLogVars == <<thrown, maxPositionSize>>

\* BaseStrategy.calculatePositionSize
calculatePositionSize(s) ==
  IF maxPositionSize[s] # 0 THEN maxPositionSize[s] ELSE DefaultPositionSize

\* registerStrategy for a strategy that was constructed with the given parameter
registerStrategyWith(s, size) ==
  /\ registerStrategy(s)
  /\ maxPositionSize' = IF s \in Range(strategies)
                          THEN maxPositionSize
                          ELSE [maxPositionSize EXCEPT ![s] = size]

NoThrow == [call |-> "none", c |-> 0, s |-> "none", p |-> 0]

\* the call at which cycle c is suspended
AwaitedCall(c) ==
  [call |-> cycles[c].pc, c |-> c, s |-> cycles[c].s, p |-> cycles[c].p]

\* canExecute() settles: a throw (line 198) leaves what `false` leaves
canExecuteSettles(c) ==
  /\ canExecuteWith(c, {calculatePositionSize(cycles[c].s)})
  /\ IF signalCount' = signalCount
       THEN thrown' \in {NoThrow, AwaitedCall(c)}
       ELSE thrown' = NoThrow

\* execute() settles: it threw when the execution was not counted
executeSettlesLogged(c) ==
  /\ executeSettles(c, MaxCyclePos)
  /\ thrown' = IF executionCount' = executionCount THEN AwaitedCall(c) ELSE NoThrow

\* shouldClose() settles: a throw (line 243) leaves what `false` leaves
shouldCloseSettles(c) ==
  /\ shouldCloseReturns(c)
  /\ IF cycles'[c].pc = "closing"
       THEN thrown' = NoThrow
       ELSE thrown' \in {NoThrow, AwaitedCall(c)}

\* closeHedgePosition() settles: it threw when the position is still tracked
closeSettles(c) ==
  /\ closeReturns(c)
  /\ IF cycles[c].p \in activePositions'[cycles[c].s]
       THEN thrown' = AwaitedCall(c)
       ELSE IF cycles[c].p \in activePositions[cycles[c].s]
         THEN thrown' = NoThrow
         ELSE thrown' \in {NoThrow, AwaitedCall(c)}

InitCycleLog ==
  /\ thrown = NoThrow
  /\ maxPositionSize = [s \in StrategyIds |-> 0]

(***************************************************************************)
(* Several openHedgePosition calls of one user: each reads the number of    *)
(* OPEN positions (line 76), validates it, and after its lookups and        *)
(* deposits writes its two rows through createHedgePosition (line 111).     *)
(***************************************************************************)
\* the calls that may be in progress at the same time
OpenerIds == {"a", "b"}
\* openHedgePosition calls that each of them makes in one run
MaxOpenCalls == 2
\* the strategyType argument
StrategyTypes == {"delta-neutral", "pairs"}
\* hedge.defaultRatio of the configuration, in percent: the ratio of "pairs"
DefaultRatio == 150

VARIABLES
  hedgeRows,  \* the rows of the user in prisma.position, all of them OPEN
  hedgeIds,   \* the hedge ids that createHedgePosition has generated
  openers,    \* where each call is, with what it was called with and has read
  openCalls   \* the calls made so far by each caller

opensVars == <<hedgeRows, hedgeIds, openers, openCalls>>

\* getOpenPositions(userId).length
openRows == Cardinality(hedgeRows)

IdleOpener ==
  [pc |-> "idle", count |-> 0, outcome |-> "none", strategyType |-> "none",
   amount |-> 0, hedgeRatio |-> 0, entryPrice |-> 0, hedgeId |-> 0]

\* the hedge ratio of line 61, in percent
hedgeRatioOf(strategyType) ==
  IF strategyType = "delta-neutral" THEN 100 ELSE DefaultRatio

\* prisma.position.create of createPosition, as createHedgePosition calls it for
\* one side: positionType HEDGE, status OPEN
createPosition(hedgeId, isLongSide, amount, entryPrice, hedgeRatio) ==
  [hedgePositionId |-> hedgeId, isLongSide |-> isLongSide, amount |-> amount,
   entryPrice |-> entryPrice, currentPrice |-> entryPrice,
   hedgeRatio |-> hedgeRatio, status |-> "OPEN"]

\* HedgeSideRows with the short side of the size of the long side
HedgeSideRows_shortOfAmount(o, hedgeId) ==
  [l \in Legs |->
     createPosition(hedgeId, l = "long", o.amount, o.entryPrice, o.hedgeRatio)]

\* the two rows of createHedgePosition for the call of opener o, lines 111-126 of
\* openHedgePosition: longAmount = amount, shortAmount = amount * hedgeRatio,
\* shortEntryPrice = longEntryPrice
HedgeSideRows(o, hedgeId) ==
  [l \in Legs |->
     createPosition(hedgeId, l = "long",
                    IF l = "long" THEN o.amount
                                  ELSE (o.amount * o.hedgeRatio) \div 100,
                    o.entryPrice, o.hedgeRatio)]

\* openHedgePosition up to the validation of line 77, of a call whose ratio and
\* balance are valid: getOpenPositions gives the rows that are OPEN now
openHedgePositionValidates(i, strategyType, amount) ==
  /\ openers[i].pc = "idle"
  /\ openCalls[i] < MaxOpenCalls
  /\ validateHedgeRatio(hedgeRatioOf(strategyType))
  /\ openCalls' = [openCalls EXCEPT ![i] = @ + 1]
  /\ openers' = [openers EXCEPT ![i] =
                   [IdleOpener EXCEPT
                      !.pc = IF validateMaxPositions(openRows)
                               THEN "lookups" ELSE "idle",
                      !.outcome = IF validateMaxPositions(openRows)
                                    THEN "none" ELSE "rejected",
                      !.count = openRows,
                      !.strategyType = strategyType,
                      !.amount = amount,
                      !.hedgeRatio = hedgeRatioOf(strategyType)]]
  /\ UNCHANGED <<hedgeRows, hedgeIds>>

\* the pool lookup and the price read of lines 82-91 settle: the entry price of
\* both sides is the price that was read
getCurrentPriceReturns(i, price) ==
  /\ openers[i].pc = "lookups"
  /\ openers' = [openers EXCEPT ![i] =
                   [@ EXCEPT !.pc = "deposits", !.entryPrice = price]]
  /\ UNCHANGED <<hedgeRows, hedgeIds, openCalls>>

\* the pool lookup, the price read or one of the two deposits of lines 82-109
\* rejects: the call rejects, no row is written
openHedgePositionFails(i) ==
  /\ openers[i].pc \in {"lookups", "deposits"}
  /\ openers' = [openers EXCEPT ![i] = [@ EXCEPT !.pc = "idle", !.outcome = "failed"]]
  /\ UNCHANGED <<hedgeRows, hedgeIds, openCalls>>

\* createHedgePosition of line 111 settles with the rows of the sides `written`:
\* both, or one or none when Promise.all rejected. The hedge id is
\* hedge_<Date.now()>_<random>, modelled as an id that was not generated before
createHedgePositionSettles(i, written) ==
  /\ openers[i].pc = "deposits"
  /\ LET hedgeId == hedgeIds + 1
         rows == HedgeSideRows(openers[i], hedgeId)
     IN /\ hedgeIds' = hedgeId
        /\ hedgeRows' = hedgeRows \cup {rows[l] : l \in written}
        /\ openers' = [openers EXCEPT ![i] =
                         IF written = Legs
                           THEN [@ EXCEPT !.pc = "idle", !.outcome = "opened",
                                          !.hedgeId = hedgeId]
                           ELSE [@ EXCEPT !.pc = "idle", !.outcome = "failed"]]
  /\ UNCHANGED openCalls

InitOpens ==
  /\ hedgeRows = {}
  /\ hedgeIds = 0
  /\ openers = [i \in OpenerIds |-> IdleOpener]
  /\ openCalls = [i \in OpenerIds |-> 0]

(***************************************************************************)
(* The operations of HedgeEngine on one hedge group, with what they give   *)
(* back: closeHedgePosition, rebalancePosition, getPositionPnL and          *)
(* PositionManager.getHedgePositions.                                       *)
(***************************************************************************)
\* the prices that the operations read for the two pools
ClosePrices == {95, 110}

VARIABLES
  closeResult   \* what the operation that settled last returned or threw

closeVars == <<closeResult>>

NoCloseResult ==
  [op |-> "none", threw |-> "no", longPnl |-> 0, shortPnl |-> 0, totalPnl |-> 0,
   groups |-> {}]

\* the operation rejects: "incomplete" for `Hedge position not found or
\* incomplete`, "rejected" for the error of a call that it awaited
Thrown(op, reason) == [NoCloseResult EXCEPT !.op = op, !.threw = reason]

\* Incomplete with only the empty listing rejected
Incomplete_noneFound(found) == found = {}

\* `!longPos || !shortPos` for the sides that the listing found
Incomplete(found) == ~("long" \in found /\ "short" \in found)

\* the sides of the group with an OPEN row: findMany of lines 168-173, 206-211
\* and of PositionManager, lines 216-221 and 107-117
OpenFound == {l \in Legs : positions[l].status = "OPEN"}

\* the sides of the group with a row: findMany of getPositionPnL, lines 256-260
AllFound == {l \in Legs : positions[l].status # "NONE"}

\* closeHedgeResult with the difference of the short side taken from the exit
closeHedgeResult_shortFromExit(prices) ==
  LET longPnl == (prices["long"] - positions["long"].entryPrice)
                   * positions["long"].amount
      shortPnl == (positions["short"].entryPrice - prices["short"])
                    * positions["short"].amount
  IN [NoCloseResult EXCEPT !.op = "closeHedgePosition", !.longPnl = longPnl,
                           !.shortPnl = shortPnl, !.totalPnl = longPnl + shortPnl]

\* what closeHedgePosition returns: longPnl and shortPnl of
\* PositionManager.closeHedgePosition (lines 235-239, from the rows that it
\* found) and their sum (HedgeEngine, lines 192-197)
closeHedgeResult(prices) ==
  LET longPnl == (prices["long"] - positions["long"].entryPrice)
                   * positions["long"].amount
      shortPnl == (prices["short"] - positions["short"].entryPrice)
                    * positions["short"].amount
  IN [NoCloseResult EXCEPT !.op = "closeHedgePosition", !.longPnl = longPnl,
                           !.shortPnl = shortPnl, !.totalPnl = longPnl + shortPnl]

\* HedgeEngine.closeHedgePosition is called, lines 161-190
closeHedgePositionCalled(t, longPrice, shortPrice) ==
  IF Incomplete(OpenFound)
    THEN /\ tasks[t] = IdleTask
         /\ closeResult' = Thrown("closeHedgePosition", "incomplete")
         /\ UNCHANGED posVars
    ELSE /\ closeHedgePosition(t, longPrice, shortPrice)
         /\ UNCHANGED closeResult

\* PositionManager.closeHedgePosition lists the OPEN rows again, lines 216-228
closeHedgeFindsAgain(t) ==
  /\ closeHedgeFinds(t)
  /\ closeResult' = IF Incomplete(OpenFound)
                      THEN Thrown("closeHedgePosition", "incomplete")
                      ELSE closeResult

\* a closePosition of closeHedgePosition settles, lines 230-239: the operation
\* returns when the second one has settled
closePositionSettles(t, l) ==
  /\ closePositionReturns(t, l)
  /\ closeResult' = IF tasks[t].pc = "closeAll" /\ tasks'[t] = IdleTask
                      THEN closeHedgeResult(tasks[t].prices)
                      ELSE closeResult

\* a closePosition of closeHedgePosition is rejected: Promise.all rejects
closePositionFails(t, l) ==
  /\ closePositionRejects(t, l)
  /\ closeResult' = IF tasks[t].pc = "closeAll"
                      THEN Thrown("closeHedgePosition", "rejected")
                      ELSE closeResult

\* HedgeEngine.rebalancePosition is called, lines 204-245
rebalancePositionCalled(t, longPrice, shortPrice) ==
  IF Incomplete(OpenFound)
    THEN /\ tasks[t] = IdleTask
         /\ closeResult' = Thrown("rebalancePosition", "incomplete")
         /\ UNCHANGED posVars
    ELSE /\ rebalancePosition(t, longPrice, shortPrice)
         /\ closeResult' = IF tasks'[t] = IdleTask
                             THEN [NoCloseResult EXCEPT !.op = "rebalancePosition"]
                             ELSE closeResult

\* HedgeEngine.getPositionPnL is called, lines 254-272
getPositionPnLCalled(t, longPrice, shortPrice) ==
  IF Incomplete(AllFound)
    THEN /\ tasks[t] = IdleTask
         /\ closeResult' = Thrown("getPositionPnL", "incomplete")
         /\ UNCHANGED posVars
    ELSE /\ getPositionPnL(t, longPrice, shortPrice)
         /\ closeResult' = IF tasks'[t] = IdleTask
                             THEN [NoCloseResult EXCEPT !.op = "getPositionPnL"]
                             ELSE closeResult

\* an updatePositionPrice of rebalancePosition or getPositionPnL settles
updatePositionPriceSettles(t) ==
  /\ updatePositionPriceReturns(t)
  /\ closeResult' = IF tasks'[t] = IdleTask
                      THEN [NoCloseResult EXCEPT !.op = tasks[t].op]
                      ELSE closeResult

\* an updatePositionPrice of rebalancePosition or getPositionPnL is rejected
updatePositionPriceFails(t) ==
  /\ updatePositionPriceRejects(t)
  /\ closeResult' = Thrown(tasks[t].op, "rejected")

\* PositionManager.getHedgePositions, lines 106-163: the groups of the OPEN rows
\* that have both sides
getHedgePositions ==
  /\ closeResult' = [NoCloseResult EXCEPT
                       !.op = "getHedgePositions",
                       !.groups = IF Incomplete(OpenFound) THEN {} ELSE {HedgeId}]
  /\ UNCHANGED posVars

InitClose == closeResult = NoCloseResult

(***************************************************************************)
(* The checks of RiskManager that are functions of their arguments:        *)
(* checkSufficientBalance, shouldTriggerStopLossWithDefault and             *)
(* validateHedgeRatio, applied to arguments of small sets.                  *)
(***************************************************************************)
\* amounts and balances, in the unit of the amount; amounts are not negative
RequiredAmounts == {0, 1, 50, 100, 200, 300}
AvailableBalances ==
  {0, 1, 2, 49, 50, 51, 99, 100, 101, 102, 199, 200, 201, 202, 203, 302, 303, 304}
\* prices against the entry prices 100 and 200
StopPrices == {85, 89, 90, 91, 95, 100, 105, 109, 110, 111, 115}
StopEntryPrices == {100, 200}
\* customStopLossPercent, in percent
StopPercents == {0, 5, 10, 20}
\* hedge ratios, in percent
RatioInputs == {0, 25, 49, 50, 51, 100, 150, 199, 200, 201, 300}

VARIABLES
  riskCall   \* the last call of one of the checks: its arguments and its result

riskVars == <<riskCall>>

NoRiskCall ==
  [op |-> "none", a |-> 0, b |-> 0, side |-> "none", supplied |-> FALSE,
   pct |-> 0, valid |-> FALSE, reason |-> "none"]

\* checkSufficientBalanceResult with the buffer test passing at the amount itself
checkSufficientBalanceResult_noBuffer(requiredAmount, availableBalance) ==
  IF availableBalance < requiredAmount
    THEN [valid |-> FALSE, reason |-> "Insufficient balance"]
    ELSE [valid |-> TRUE, reason |-> "none"]

\* RiskManager.checkSufficientBalance with its reason: bufferAmount is
\* requiredAmount * 1.01, compared here after multiplying both sides by 100
checkSufficientBalanceResult(requiredAmount, availableBalance) ==
  IF availableBalance < requiredAmount
    THEN [valid |-> FALSE, reason |-> "Insufficient balance"]
    ELSE IF availableBalance * 100 < requiredAmount * 101
      THEN [valid |-> FALSE, reason |-> "Insufficient balance for trade + fees"]
      ELSE [valid |-> TRUE, reason |-> "none"]

\* `customStopLossPercent || 0.1`, in percent: the default for an argument that
\* is omitted and for one that is 0
StopLossPercentOf(supplied, customStopLossPercent) ==
  IF supplied /\ customStopLossPercent # 0
    THEN customStopLossPercent ELSE StopLossPercent

\* RiskManager.shouldTriggerStopLossWithDefault with its fourth argument
shouldTriggerStopLossWithCustom(currentPrice, entryPrice, side, supplied, pct) ==
  LET stopLossPercent == StopLossPercentOf(supplied, pct)
      priceDiff == currentPrice - entryPrice
  IN /\ abs(priceDiff) * 100 >= stopLossPercent * entryPrice
     /\ IF side = "long" THEN priceDiff < 0 ELSE priceDiff > 0

\* a call of checkSufficientBalance
checkSufficientBalanceCalled(requiredAmount, availableBalance) ==
  LET result == checkSufficientBalanceResult(requiredAmount, availableBalance)
  IN riskCall' = [NoRiskCall EXCEPT !.op = "checkSufficientBalance",
                                    !.a = requiredAmount, !.b = availableBalance,
                                    !.valid = result.valid,
                                    !.reason = result.reason]

\* a call of shouldTriggerStopLossWithDefault, with or without its fourth argument
shouldTriggerStopLossCalled(currentPrice, entryPrice, side, supplied, pct) ==
  riskCall' = [NoRiskCall EXCEPT
                 !.op = "shouldTriggerStopLossWithDefault",
                 !.a = currentPrice, !.b = entryPrice, !.side = side,
                 !.supplied = supplied, !.pct = IF supplied THEN pct ELSE 0,
                 !.valid = shouldTriggerStopLossWithCustom(
                             currentPrice, entryPrice, side, supplied, pct)]

\* a call of validateHedgeRatio
validateHedgeRatioCalled(ratio) ==
  riskCall' = [NoRiskCall EXCEPT !.op = "validateHedgeRatio", !.a = ratio,
                                 !.valid = validateHedgeRatio(ratio)]

InitRisk == riskCall = NoRiskCall

(***************************************************************************)
(* SignalEngine: the price history of one pool, with startMonitoring,       *)
(* stopMonitoring and the recordPrice callback that startMonitoring          *)
(* subscribes. A point is identified by its arrival number.                 *)
(***************************************************************************)
\* HISTORY_SIZE
HISTORY_SIZE == 100
\* price updates that are delivered in one run
MaxArrivals == 103

VARIABLES
  priceHistory,   \* priceHistory.get(pool): whether the map has the pool, and its points
  priceUpdates    \* the callback and what was delivered to it

historyVars == <<priceHistory, priceUpdates>>

\* the map has no entry for the pool
NoHistory == [has |-> FALSE, points |-> <<>>]

\* the price of the n-th update
PriceAt(n) == 100 + (n % 3)

\* the point that recordPrice pushes for the n-th update
PricePoint(n) == [price |-> PriceAt(n), timestamp |-> n]

\* Pushed with the newest point dropped on overflow
Pushed_dropsNewest(history, point) ==
  LET pushed == Append(history, point)
  IN IF Len(pushed) > HISTORY_SIZE THEN SubSeq(pushed, 1, HISTORY_SIZE) ELSE pushed

\* history.push(point), then history.shift() when it is longer than HISTORY_SIZE
Pushed(history, point) ==
  LET pushed == Append(history, point)
  IN IF Len(pushed) > HISTORY_SIZE THEN Tail(pushed) ELSE pushed

\* SignalEngine.startMonitoring: an empty history unless the map has one, and
\* recordPrice subscribed to the price updates of the pool
startMonitoringPool ==
  /\ priceHistory' = IF priceHistory.has THEN priceHistory
                     ELSE [has |-> TRUE, points |-> <<>>]
  /\ priceUpdates' = [priceUpdates EXCEPT !.subscribed = TRUE, !.stopped = FALSE]

\* SignalEngine.stopMonitoring: the history is deleted; the function that the
\* subscription returned was not kept, so the callback stays subscribed
stopMonitoring ==
  /\ priceHistory' = NoHistory
  /\ priceUpdates' = [priceUpdates EXCEPT !.stopped = TRUE, !.sinceCleared = 0]

\* a price update is delivered to the callback: recordPrice, lines 66-85
recordPrice ==
  /\ priceUpdates.subscribed
  /\ priceUpdates.arrivals < MaxArrivals
  /\ LET n == priceUpdates.arrivals + 1
         history == IF priceHistory.has THEN priceHistory.points ELSE <<>>
     IN /\ priceHistory' = [has |-> TRUE, points |-> Pushed(history, PricePoint(n))]
        /\ priceUpdates' = [priceUpdates EXCEPT !.arrivals = n,
                                                !.sinceCleared = @ + 1]

InitHistory ==
  /\ priceHistory = NoHistory
  /\ priceUpdates = [subscribed |-> FALSE, stopped |-> FALSE, arrivals |-> 0,
                     sinceCleared |-> 0]

(***************************************************************************)
(* OrcaWebSocketManager.subscribe and the unsubscribe function it returns:  *)
(* the price feed of the pool with the calls of the unsubscribe functions.  *)
(***************************************************************************)
VARIABLE
  unsubscribeLog   \* the callbacks whose unsubscribe function was called, and those
                   \* of them that were invoked afterwards

unsubVars == <<unsubscribeLog>>

\* the unsubscribe function of `callback`, () => this.disconnect(poolAddress): the
\* interval of the pool and the reconnect timeout that the map holds are cleared,
\* reconnectAttempts is deleted
unsubscribe(callback) ==
  /\ callback \in subscribedTo
  /\ callback \notin unsubscribeLog.called
  /\ pollingIntervals' = "none"
  /\ \/ reconnectTimers = {} /\ UNCHANGED reconnectTimers
     \/ \E timer \in reconnectTimers : reconnectTimers' = reconnectTimers \ {timer}
  /\ reconnectAttempts' = 0
  /\ unsubscribeLog' = [unsubscribeLog EXCEPT !.called = @ \cup {callback}]
  /\ UNCHANGED <<fetches, groupStatus, subscribedTo>>

\* fetchAndEmitPrice with the invocation of an unsubscribed callback noted
fetchAndEmitPriceLogged(callback, price, closes) ==
  /\ fetchAndEmitPrice(callback, price, closes)
  /\ unsubscribeLog' =
       IF callback \in unsubscribeLog.called
         THEN [unsubscribeLog EXCEPT !.invokedAfter = @ \cup {callback}]
         ELSE unsubscribeLog

InitUnsub ==
  unsubscribeLog = [called |-> {}, invokedAfter |-> {}]

(***************************************************************************)
(* The specifications.                                                     *)
(***************************************************************************)
vars == <<engineVars, execVars, retryVars, posVars, feedVars, shutdownVars, cycleLogVars, opensVars, closeVars, riskVars, historyVars, unsubVars>>

Init == InitEngine /\ InitExec /\ InitRetryIdle /\ InitPos /\ InitFeed /\ InitShutdown /\ InitCycleLog /\ InitOpens /\ InitClose /\ InitRisk /\ InitHistory /\ InitUnsub

\* what an operation other than start() leaves of the two bookkeeping variables
Other == startOutcome' = "none" /\ UNCHANGED cycleRuns

EngineOnly == UNCHANGED <<execVars, retryVars, posVars, feedVars, shutdownVars, cycleLogVars, opensVars, closeVars, riskVars, historyVars, unsubVars>>

Next ==
  \/ \E s \in EngineStrategyIds : registerStrategy(s) /\ Other /\ EngineOnly
  \/ start /\ UNCHANGED cycleRuns /\ EngineOnly
  \/ startInitializeThrows /\ UNCHANGED cycleRuns /\ EngineOnly
  \/ startInitialized /\ EngineOnly
  \/ stop /\ Other /\ EngineOnly
  \/ timerFires /\ startOutcome' = "none" /\ EngineOnly
  \/ \E c \in CycleIds : canExecuteReturns(c) /\ Other /\ EngineOnly
  \/ \E c \in CycleIds : executeReturns(c) /\ Other /\ EngineOnly
  \/ \E c \in CycleIds : shouldCloseReturns(c) /\ Other /\ EngineOnly
  \/ \E c \in CycleIds : closeReturns(c) /\ Other /\ EngineOnly
  \/ activateKillSwitch /\ Other /\ EngineOnly
  \/ deactivateKillSwitch /\ Other /\ EngineOnly
  \/ \E b \in BOOLEAN : setDryRun(b) /\ Other /\ EngineOnly
  \/ \E k \in BOOLEAN, d \in BOOLEAN : updateSafetyConfig(k, d) /\ Other /\ EngineOnly
  \/ clockAdvances /\ Other /\ EngineOnly

\* AutomationEngine
Spec == Init /\ [][Next]_vars

ExecOnly == UNCHANGED <<engineVars, retryVars, posVars, feedVars, shutdownVars, cycleLogVars, opensVars, closeVars, riskVars, historyVars, unsubVars>>

NextExec ==
  \/ \E lo \in LegOrders("BUY"), so \in LegOrders("SELL") :
       executeHedgeOrders(lo, so) /\ ExecOnly
  \/ \E l \in Legs : validateOrder(l) /\ ExecOnly
  \/ \E l \in Legs : createOrderRecord(l) /\ ExecOnly
  \/ \E l \in Legs : dispatchOrder(l) /\ ExecOnly
  \/ \E l \in Legs : executeMarketOrder(l) /\ ExecOnly
  \/ \E l \in Legs : depositLiquidityReturns(l) /\ ExecOnly
  \/ \E l \in Legs : pollSignatureStatus(l) /\ ExecOnly
  \/ \E l \in Legs : updateOrderRecord(l) /\ ExecOnly
  \/ \E l \in Legs : sleepEnds(l) /\ ExecOnly
  \/ longOrderReturns /\ ExecOnly
  \/ shortOrderReturns /\ ExecOnly
  \/ openHedgePosition /\ ExecOnly
  \/ longDepositReturns /\ ExecOnly
  \/ shortDepositReturns /\ ExecOnly

\* OrderExecutor, and the deposits of HedgeEngine.openHedgePosition
SpecExec == Init /\ [][NextExec]_vars

NextRetry == decideRetry /\ UNCHANGED <<engineVars, execVars, posVars, feedVars, shutdownVars, cycleLogVars, opensVars, closeVars, riskVars, historyVars, unsubVars>>

\* the retry decision of executeOrder over every kind of error
\* every error kind caught at every retryAttempt the loop can reach
InitRetryInputs == InitEngine /\ InitExec /\ InitRetry /\ InitPos /\ InitFeed /\ InitShutdown /\ InitCycleLog /\ InitOpens /\ InitClose /\ InitRisk /\ InitHistory /\ InitUnsub

SpecRetry == InitRetryInputs /\ [][NextRetry]_vars

PosOnly == UNCHANGED <<engineVars, execVars, retryVars, feedVars, shutdownVars, cycleLogVars, opensVars, closeVars, riskVars, historyVars, unsubVars>>

NextPos ==
  \/ createHedgePosition /\ PosOnly
  \/ \E l \in Legs : createHedgePositionRejects(l) /\ PosOnly
  \/ \E t \in TaskIds, lp \in PosPrices, sp \in PosPrices :
       getPositionPnL(t, lp, sp) /\ PosOnly
  \/ \E t \in TaskIds, lp \in PosPrices, sp \in PosPrices :
       rebalancePosition(t, lp, sp) /\ PosOnly
  \/ \E t \in TaskIds : updatePositionPriceReturns(t) /\ PosOnly
  \/ \E t \in TaskIds : updatePositionPriceRejects(t) /\ PosOnly
  \/ \E t \in TaskIds, lp \in PosPrices, sp \in PosPrices :
       closeHedgePosition(t, lp, sp) /\ PosOnly
  \/ \E t \in TaskIds, p \in PosPrices \cup {0} :
       emergencyCloseAllHedgePositions(t, p) /\ PosOnly
  \/ \E t \in TaskIds : closeHedgeFinds(t) /\ PosOnly
  \/ \E t \in TaskIds, p \in PosPrices \cup {0} :
       closePositionsExceedingStopLoss(t, p) /\ PosOnly
  \/ \E t \in TaskIds, p \in PosPrices \cup {0} :
       emergencyCloseAllPositions(t, p) /\ PosOnly
  \/ \E t \in TaskIds, l \in Legs : closePositionReturns(t, l) /\ PosOnly
  \/ \E t \in TaskIds, l \in Legs : closePositionRejects(t, l) /\ PosOnly
  \/ \E t \in TaskIds : emergencyExit(t) /\ PosOnly
  \/ \E t \in TaskIds : emergencyExitUpdates(t) /\ PosOnly
  \/ \E t \in TaskIds : emergencyExitUpdateRejects(t) /\ PosOnly

\* the position store
SpecPos == Init /\ [][NextPos]_vars

FeedOnly == UNCHANGED <<engineVars, execVars, retryVars, posVars, shutdownVars, cycleLogVars, opensVars, closeVars, riskVars, historyVars, unsubVars>>

NextFeed ==
  \/ \E g \in Groups : subscribeHedge(g) /\ FeedOnly
  \/ startMonitoring /\ FeedOnly
  \/ pollingIntervalFires /\ FeedOnly
  \/ \E callback \in Subscribers, price \in FeedPrices, closes \in BOOLEAN :
       fetchAndEmitPrice(callback, price, closes) /\ FeedOnly
  \/ \E callback \in Subscribers, errorListener \in BOOLEAN :
       fetchRejects(callback, errorListener) /\ FeedOnly
  \/ \E timer \in reconnectTimers : reconnectTimerFires(timer) /\ FeedOnly

\* the price feed of a pool and its subscribers
SpecFeed == Init /\ [][NextFeed]_vars

ShutdownOnly == UNCHANGED <<engineVars, execVars, retryVars, posVars, feedVars, cycleLogVars, opensVars, closeVars, riskVars, historyVars, unsubVars>>

NextShutdown ==
  \/ \E prisma \in BOOLEAN, automationEngine \in BOOLEAN, marketData \in MarketDataArgs,
        engineRuns \in BOOLEAN :
       setupGlobalErrorHandling(prisma, automationEngine, marketData, engineRuns)
         /\ ShutdownOnly
  \/ \E event \in ShutdownEvents : shutdown(event) /\ ShutdownOnly
  \/ \E event \in ShutdownEvents : shutdownSkipped(event) /\ ShutdownOnly
  \/ \E threw \in BOOLEAN : callbackSettles(threw) /\ ShutdownOnly

\* the shutdown of the process
SpecShutdown == Init /\ [][NextShutdown]_vars

CycleOnly == UNCHANGED <<execVars, retryVars, posVars, feedVars, shutdownVars, opensVars, closeVars, riskVars, historyVars, unsubVars>>

NextCycle ==
  \/ \E s \in StrategyIds, size \in ConfiguredSizes :
       registerStrategyWith(s, size) /\ Other /\ thrown' = NoThrow /\ CycleOnly
  \/ /\ \/ start /\ UNCHANGED cycleRuns
        \/ startInitialized
        \/ stop /\ Other
        \/ timerFires /\ startOutcome' = "none"
     /\ thrown' = NoThrow
     /\ UNCHANGED maxPositionSize
     /\ CycleOnly
  \/ /\ \E c \in CycleIds :
          \/ canExecuteSettles(c)
          \/ executeSettlesLogged(c)
          \/ shouldCloseSettles(c)
          \/ closeSettles(c)
     /\ Other
     /\ UNCHANGED maxPositionSize
     /\ CycleOnly

\* the monitoring cycles of a running engine, with the calls that threw
SpecCycle == Init /\ [][NextCycle]_vars

OpensOnly ==
  UNCHANGED <<engineVars, execVars, retryVars, posVars, feedVars, shutdownVars,
              cycleLogVars, closeVars, riskVars, historyVars, unsubVars>>

NextOpens ==
  \/ \E i \in OpenerIds, strategyType \in StrategyTypes, amount \in OpenAmounts :
       openHedgePositionValidates(i, strategyType, amount) /\ OpensOnly
  \/ \E i \in OpenerIds, price \in PosPrices :
       getCurrentPriceReturns(i, price) /\ OpensOnly
  \/ \E i \in OpenerIds : openHedgePositionFails(i) /\ OpensOnly
  \/ \E i \in OpenerIds, written \in SUBSET Legs :
       createHedgePositionSettles(i, written) /\ OpensOnly

\* the openHedgePosition calls of one user
SpecOpens == Init /\ [][NextOpens]_vars

CloseOnly ==
  UNCHANGED <<engineVars, execVars, retryVars, feedVars, shutdownVars,
              cycleLogVars, opensVars, riskVars, historyVars, unsubVars>>

NextClose ==
  \/ createHedgePosition /\ UNCHANGED closeResult /\ CloseOnly
  \/ \E rejected \in Legs :
       createHedgePositionRejects(rejected) /\ UNCHANGED closeResult /\ CloseOnly
  \/ \E t \in TaskIds, lp \in ClosePrices, sp \in ClosePrices :
       closeHedgePositionCalled(t, lp, sp) /\ CloseOnly
  \/ \E t \in TaskIds : closeHedgeFindsAgain(t) /\ CloseOnly
  \/ \E t \in TaskIds, l \in Legs : closePositionSettles(t, l) /\ CloseOnly
  \/ \E t \in TaskIds, l \in Legs : closePositionFails(t, l) /\ CloseOnly
  \/ \E t \in TaskIds, lp \in ClosePrices, sp \in ClosePrices :
       rebalancePositionCalled(t, lp, sp) /\ CloseOnly
  \/ \E t \in TaskIds, lp \in ClosePrices, sp \in ClosePrices :
       getPositionPnLCalled(t, lp, sp) /\ CloseOnly
  \/ \E t \in TaskIds : updatePositionPriceSettles(t) /\ CloseOnly
  \/ \E t \in TaskIds : updatePositionPriceFails(t) /\ CloseOnly
  \/ getHedgePositions /\ CloseOnly

\* the operations on one hedge group, with their results
SpecClose == Init /\ [][NextClose]_vars

\* the price that the currentPrices map of a sweep holds for the pool: moves of
\* 5, 10 and 15 percent from the entry price 100
SweepPrices == {85, 90, 95, 110, 115}

NextSweep ==
  \/ createHedgePosition /\ PosOnly
  \/ \E t \in TaskIds, p \in SweepPrices \cup {0} :
       closePositionsExceedingStopLoss(t, p) /\ PosOnly
  \/ \E t \in TaskIds, l \in Legs : closePositionReturns(t, l) /\ PosOnly
  \/ \E t \in TaskIds, l \in Legs : closePositionRejects(t, l) /\ PosOnly

\* the stop-loss sweeps over the rows of a hedge
SpecSweep == Init /\ [][NextSweep]_vars

RiskOnly ==
  UNCHANGED <<engineVars, execVars, retryVars, posVars, feedVars, shutdownVars,
              cycleLogVars, opensVars, closeVars, historyVars, unsubVars>>

NextRisk ==
  \/ \E requiredAmount \in RequiredAmounts, availableBalance \in AvailableBalances :
       checkSufficientBalanceCalled(requiredAmount, availableBalance) /\ RiskOnly
  \/ \E currentPrice \in StopPrices, entryPrice \in StopEntryPrices, side \in Legs,
        supplied \in BOOLEAN, pct \in StopPercents :
       shouldTriggerStopLossCalled(currentPrice, entryPrice, side, supplied, pct)
         /\ RiskOnly
  \/ \E ratio \in RatioInputs : validateHedgeRatioCalled(ratio) /\ RiskOnly

\* the checks of RiskManager on their arguments
SpecRisk == Init /\ [][NextRisk]_vars

HistoryOnly ==
  UNCHANGED <<engineVars, execVars, retryVars, posVars, feedVars, shutdownVars,
              cycleLogVars, opensVars, closeVars, riskVars, unsubVars>>

NextHistory ==
  \/ startMonitoringPool /\ HistoryOnly
  \/ stopMonitoring /\ HistoryOnly
  \/ recordPrice /\ HistoryOnly

\* the price history of a pool
SpecHistory == Init /\ [][NextHistory]_vars

UnsubOnly ==
  UNCHANGED <<engineVars, execVars, retryVars, posVars, shutdownVars, cycleLogVars,
              opensVars, closeVars, riskVars, historyVars>>

NextUnsub ==
  \/ \E g \in Groups : subscribeHedge(g) /\ UNCHANGED unsubscribeLog /\ UnsubOnly
  \/ startMonitoring /\ UNCHANGED unsubscribeLog /\ UnsubOnly
  \/ \E callback \in Subscribers : unsubscribe(callback) /\ UnsubOnly
  \/ pollingIntervalFires /\ UNCHANGED unsubscribeLog /\ UnsubOnly
  \/ \E callback \in Subscribers, price \in FeedPrices, closes \in BOOLEAN :
       fetchAndEmitPriceLogged(callback, price, closes) /\ UnsubOnly
  \/ \E callback \in Subscribers, errorListener \in BOOLEAN :
       fetchRejects(callback, errorListener) /\ UNCHANGED unsubscribeLog /\ UnsubOnly
  \/ \E timer \in reconnectTimers :
       reconnectTimerFires(timer) /\ UNCHANGED unsubscribeLog /\ UnsubOnly

\* the price feed of a pool with the unsubscribe functions of its subscribers
SpecUnsub == Init /\ [][NextUnsub]_vars

NextEmergencyClose ==
  \/ createHedgePosition /\ PosOnly
  \/ \E l \in Legs : createHedgePositionRejects(l) /\ PosOnly
  \/ \E t \in TaskIds, p \in PosPrices \cup {0} :
       emergencyCloseAllHedgePositions(t, p) /\ PosOnly
  \/ \E t \in TaskIds : emergencyCloseAllFindsNoHedge(t) /\ PosOnly
  \/ \E t \in TaskIds : closeHedgeFinds(t) /\ PosOnly
  \/ \E t \in TaskIds, p \in PosPrices \cup {0} :
       closePositionsExceedingStopLoss(t, p) /\ PosOnly
  \/ \E t \in TaskIds, l \in Legs : closePositionReturns(t, l) /\ PosOnly
  \/ \E t \in TaskIds, l \in Legs : closePositionRejects(t, l) /\ PosOnly

\* the emergency close of the hedges of a user over the rows of a hedge
SpecEmergencyClose == Init /\ [][NextEmergencyClose]_vars

(***************************************************************************)
(* AutomationEngine: properties.                                           *)
(***************************************************************************)
StartThrew == {"threw_no_strategies", "threw_kill_switch"}

\* C1 (as stated): activateKillSwitch() stops a running engine at once, a
\* monitoring cycle that begins while the kill switch is set stops the engine and
\* does no work, and EVERY start() call made while the kill switch is set fails
\* and leaves the engine stopped.
C1_Original ==
  [][ /\ (activateKillSwitch => killSwitch' /\ ~running')
      /\ ((timerFires \/ startInitialized) /\ killSwitch
            => ~running' /\ cycles' = cycles)
      /\ (start /\ killSwitch => startOutcome' \in StartThrew /\ ~running') ]_vars

\* C1 (amended): activateKillSwitch() stops a running engine at once, a monitoring
\* cycle that begins while the kill switch is set stops the engine and does no
\* work, and a start() call made while the kill switch is set and the engine is
\* stopped throws and leaves it stopped; a start() call made while the engine is
\* still running (the flag set through updateSafetyConfig, no cycle begun since)
\* returns without an error and changes nothing.
C1_KillSwitchStops ==
  [][ /\ (activateKillSwitch => killSwitch' /\ ~running')
      /\ ((timerFires \/ startInitialized) /\ killSwitch
            => ~running' /\ cycles' = cycles)
      /\ (start /\ killSwitch /\ ~running
            => startOutcome' \in StartThrew /\ ~running' /\ startsInInit' = startsInInit)
      /\ (start /\ killSwitch /\ running
            => startOutcome' = "already_running" /\ running'
               /\ startsInInit' = startsInInit) ]_vars

\* the kill switch was set after the engine had run cycles, the engine is stopped
\* and the start() call that has just returned threw because of the kill switch
C1_Witness ==
  /\ killSwitch
  /\ ~running
  /\ cycleRuns > 0
  /\ startOutcome = "threw_kill_switch"

\* C2: a cycle calls strategy.execute() or hedgeEngine.closeHedgePosition() only
\* while the engine is running and the kill switch is not set, cycles that were
\* already in progress when stop() or the kill switch came included.
C2_NoNewWorkAfterStop ==
  [][ \A c \in CycleIds :
        (cycles'[c].pc \in {"execute", "closing"} /\ cycles'[c].pc # cycles[c].pc)
          => running /\ ~killSwitch ]_vars

\* C3: in live mode the execute() calls started within the trailing hour, those
\* still awaited and those recorded, never number more than maxPositionsPerHour.
C3_AtMostMaxPerHour ==
  Cardinality({c \in CycleIds : cycles[c].pc = "execute" /\ now - cycles[c].t < HourTicks})
    + Len(SelectSeq(positionHistory, LAMBDA e : now - e.called < HourTicks))
      <= MaxPositionsPerHour

(***************************************************************************)
(* OrderExecutor: properties.                                              *)
(***************************************************************************)
\* what executeHedgeOrders has returned, against what the two orders returned
HedgeReport ==
  LET longResult == ex["long"].result
      shortResult == ex["short"].result
  IN /\ (hResult.success <=> longResult.success /\ shortResult.success)
     /\ (hResult.success => hResult.totalFees = longResult.fee + shortResult.fee)
     /\ (longResult.success /\ ex["short"].pc = "returned" /\ ~shortResult.success
           => /\ ~hResult.success
              /\ hResult.error.kind = "AtomicExecutionError"
              /\ hResult.error.successfulOrders = <<longResult.signature>>
              /\ hResult.error.failedOrders = <<"short">>)

C5_LegsSequential ==
  /\ (ex["short"].pc # "idle"
        => ex["long"].pc = "returned" /\ ex["long"].result.success)
  /\ (ex["long"].pc = "returned" /\ ~ex["long"].result.success
        => /\ ex["short"].pc = "idle"
           /\ ex["short"].attempts = 0
           /\ \A i \in 1..Len(orderRecords) : orderRecords[i].leg # "short"
           /\ "short" \notin Range(venueLog))
  /\ (ohpc = "longDeposit" => venueLog = <<"long">>)
  /\ (ohpc # "idle" /\ "short" \in Range(venueLog)
        => venueLog = <<"long", "short">> /\ ohpc # "longDeposit")

\* the venue call of the short order is in flight, the long order has returned success
C5_Witness ==
  /\ ex["short"].pc = "deposit"
  /\ ex["long"].pc = "returned"
  /\ ex["long"].result.success

\* C6 (as stated): an executeOrder call makes at most 4 attempts, and one whose
\* attempts all failed with a retryable error returns retryAttempts = 4.
C6_Original ==
  \A l \in Legs :
    /\ ex[l].attempts <= 4
    /\ (ex[l].pc = "returned" /\ ~ex[l].result.success
          /\ isRetryableError(ex[l].result.error)
          => ex[l].result.retryAttempts = 4)

\* C6 (amended): an executeOrder call makes at most 5 attempts, the first and
\* MAX_RETRIES = 4 retries; one whose attempts all failed with a retryable error
\* has made 5 attempts, has slept after each of them, and returns success = false
\* with retryAttempts = 4.
C6_AtMostFiveAttempts ==
  \A l \in Legs :
    /\ ex[l].attempts <= MAX_RETRIES + 1
    /\ (ex[l].pc = "returned" /\ ~ex[l].result.success
          /\ isRetryableError(ex[l].result.error)
          => /\ ex[l].attempts = MAX_RETRIES + 1
             /\ Len(ex[l].slept) = MAX_RETRIES + 1
             /\ ex[l].result.retryAttempts = MAX_RETRIES)

\* the long order has returned after five attempts that all failed with a
\* retryable error
C6_Witness ==
  /\ ex["long"].pc = "returned"
  /\ ~ex["long"].result.success
  /\ isRetryableError(ex["long"].result.error)
  /\ ex["long"].attempts = 5
  /\ Len(orderRecords) = 5

C8_ConfirmationErrorDistinct ==
  \A l \in Legs :
    /\ (ex[l].sawConfirmedErr => ex[l].waitOutcome = "TransactionConfirmationError")
    /\ (ex[l].waitOutcome = "TransactionTimeoutError" => ~ex[l].sawConfirmedErr)

\* C9: when an executeOrder call has returned, none of the order records its
\* attempts created is PENDING.
C9_RecordsTerminal ==
  \A l \in Legs :
    ex[l].pc = "returned"
      => \A i \in 1..Len(orderRecords) :
           orderRecords[i].leg = l => orderRecords[i].status \in {"FILLED", "FAILED"}

(***************************************************************************)
(* The position store: properties.                                         *)
(***************************************************************************)
\* C10: a CLOSED position has unrealizedPnl = 0, the realizedPnl of a CLOSED
\* position never changes, and unrealizedPnl changes only on an OPEN position,
\* under every interleaving of the operations on the store.
C10_ClosedIsFinal ==
  [][ \A l \in Legs :
        /\ (positions'[l].status = "CLOSED" => positions'[l].unrealizedPnl = 0)
        /\ (positions[l].status = "CLOSED"
              => positions'[l].realizedPnl = positions[l].realizedPnl)
        /\ (positions'[l].unrealizedPnl # positions[l].unrealizedPnl
              => positions[l].status = "OPEN") ]_vars

\* C11: the hedge in the store is whole at all times: either no row of it exists,
\* or its long row and its short row both exist and have the same status, also
\* when one of the two writes that createHedgePosition or closeHedgePosition
\* issues together is rejected.
C11_HedgeGroupWhole ==
  \/ NoneCreated
  \/ /\ Created
     /\ positions["long"].status = positions["short"].status

\* C12: start() sets the engine running only when a strategy is registered and the
\* kill switch is not set, and whenever a start() call has failed (thrown), for
\* whatever reason, the engine is stopped: not running and with no interval timer.
C12_FailedStartLeavesStopped ==
  /\ (startOutcome \in {"initializing", "started"}
        => Len(strategies) > 0)
  /\ (startOutcome = "initializing" => ~killSwitch)
  /\ (startOutcome \in StartThrew \cup {"threw_initialize"}
        => ~running /\ monitoringInterval = 0 /\ armed = {})

\* C13 (as stated): while dry-run is enabled no step of a monitoring cycle calls
\* strategy.execute() or closeHedgePosition, adds an execution to the rate-limit
\* history or changes a strategy's active-position set.
C13_Original ==
  [][ \A c \in CycleIds :
        (dryRun /\ cycles'[c] # cycles[c])
          => /\ cycles'[c].pc \notin {"execute", "closing"}
             /\ Len(positionHistory') <= Len(positionHistory)
             /\ activePositions' = activePositions ]_vars

\* C13: a monitoring cycle that finds dry-run enabled when canExecute() or
\* shouldClose() returns does not call strategy.execute() or closeHedgePosition,
\* leaves the rate-limit history and every active-position set as they are, and
\* at most advances the signal and execution counters; only an execute() or a
\* closeHedgePosition that was already in flight when dry-run was enabled still
\* completes and is recorded.
C13_DryRunDecides ==
  [][ \A c \in CycleIds :
        (dryRun /\ cycles[c].pc \in {"canExecute", "shouldClose"}
                /\ cycles'[c] # cycles[c])
          => /\ cycles'[c].pc \notin {"execute", "closing"}
             /\ positionHistory' = positionHistory
             /\ activePositions' = activePositions
             /\ nextPos' = nextPos
             /\ signalCount' \in {signalCount, signalCount + 1}
             /\ executionCount' \in {executionCount, executionCount + 1}
             /\ (executionCount' # executionCount => signalCount' # signalCount) ]_vars

\* C13 witness: a dry-run cycle has counted an execution and recorded nothing
C13_Witness ==
  /\ dryRun
  /\ now = 0
  /\ executionCount > 0
  /\ positionHistory = <<>>
  /\ \A s \in StrategyIds : activePositions[s] = {}

\* C14: when the deposit of the short side fails after the deposit of the long
\* side has succeeded, openHedgePosition rejects with an AtomicExecutionError that
\* names the successful long side and the failed short side.
C14_UnhedgedLegReported ==
  (ohpc = "failed" /\ oh.error.reason = "short deposit")
    => /\ oh.error.kind = "AtomicExecutionError"
       /\ Len(oh.error.successfulOrders) = 1
       /\ oh.error.failedOrders = <<"short">>

\* C15: openHedgePosition rejects with an error, calls no deposit and creates no
\* position when the hedge ratio lies outside [minRatio, maxRatio], when the
\* balance does not cover twice the amount and 1% for fees, or when the number of
\* open positions has reached the limit.
C15_OpenRejected ==
  (/\ ohpc # "idle"
   /\ \/ oh.ratio < HedgeConfig.minRatio
      \/ oh.ratio > HedgeConfig.maxRatio
      \/ oh.balance * 100 < 2 * oh.amount * 101
      \/ oh.count >= MaxOpenPositions)
    => /\ ohpc = "failed"
       /\ oh.error.kind = "Error"
       /\ oh.error.reason \in {"ratio", "balance", "maxPositions"}
       /\ venueLog = <<>>
       /\ oh.created = "none"
       /\ ~oh.subscribed

\* C15 witness: a request whose balance covers twice the amount but not the 1%
\* for fees has been rejected
C15_Witness ==
  /\ ohpc = "failed"
  /\ oh.balance >= 2 * oh.amount
  /\ oh.balance * 100 < 2 * oh.amount * 101
  /\ oh.error = PlainError("balance")
  /\ venueLog = <<>>

\* C16: every hedge opened through openHedgePosition stays monitored for as long
\* as it is open: the price updates of its pool are given to its monitorPosition
\* callback (the interval of the pool calls it), also when several hedges or a
\* SignalEngine monitor are subscribed to the same pool.
C16_OpenHedgesMonitored ==
  \A g \in Groups : groupStatus[g] = "OPEN" => pollingIntervals = g

\* C17: a hedge that HedgeStrategy.execute opened and tracks is closed by a later
\* live monitoring cycle once its P&L has reached the stop-loss level (-10%) or
\* the take-profit level (+5%): at such a P&L shouldClose of the tracked id
\* answers true, which is what makes the cycle close and untrack the hedge.
C17_ExitLevelCloses ==
  LET pnl == positions["long"].unrealizedPnl + positions["short"].unrealizedPnl
      totalValue == positions["long"].amount * positions["long"].entryPrice
                      + positions["short"].amount * positions["short"].entryPrice
  IN \A longPrice \in PosPrices, shortPrice \in PosPrices :
       (/\ OpenSides = BothSides
        /\ \/ pnl * 100 <= -StrategyStopLossPercent * totalValue
           \/ pnl * 100 >= StrategyTakeProfitPercent * totalValue)
         => HedgeStrategyShouldClose(HedgeId, longPrice, shortPrice)

\* C18: rebalancePosition changes nothing when the drift of long value / short
\* value from the target ratio does not exceed the rebalance threshold; otherwise,
\* when it returns, the value of the overweight side has been reduced so that a
\* second evaluation at the same market prices finds no rebalancing needed.
C18_RebalanceRestoresRatio ==
  [][\A t \in TaskIds :
       /\ (/\ tasks[t] = IdleTask
           /\ tasks' = tasks
           /\ returned'.op = "rebalancePosition")
            => positions' = positions
       /\ (/\ tasks[t].op = "rebalancePosition"
           /\ tasks[t].pc = "update"
           /\ tasks'[t] = IdleTask
           /\ ~returned'.threw)
            => ~needsRebalancing(positions'["long"].amount * tasks[t].prices["long"],
                                 positions'["short"].amount * tasks[t].prices["short"])]_vars

C20_EmergencyExitReportsFailures ==
  returned.op = "emergencyExit" =>
    /\ ~returned.threw
    /\ returned.errors = returned.failed

\* the callbacks that have settled during the shutdown, in the order they settled
SettledCallbacks ==
  SelectSeq(shutdownSteps, LAMBDA s : s.step \notin {"shutdown", "skipped"})

C22_SlippageEndsCall ==
  [][\A l \in Legs, read \in PriceReads :
       (/\ \/ ex[l].pc = "dispatch" /\ ex[l].order.orderType = "MARKET"
           \/ ex[l].pc = "market"
        /\ ~read.throws
        /\ ex[l].order.price # 0
        /\ abs(read.price - ex[l].order.price) * 100
             > DEFAULT_MAX_SLIPPAGE * ex[l].order.price
        /\ marketOrderStep(l, read))
         => /\ venueLog' = venueLog
            /\ ex'[l].pc = "returned"
            /\ ex'[l].lastError.kind = "SlippageError"
            /\ ~ex'[l].result.success]_vars

\* C23: an exception thrown by canExecute() or execute() of one strategy, or by
\* shouldClose() or the close of one tracked position, is caught inside the
\* cycle: the cycle goes on with the strategies and the tracked positions that
\* its loops have still to visit, the other cycles are not touched, the engine
\* stays running and its interval timer stays armed.
C23_ThrowStaysInsideCycle ==
  [][thrown' # NoThrow =>
       LET c == thrown'.c IN
         /\ thrown' = AwaitedCall(c)
         /\ running' = running
         /\ armed' = armed
         /\ monitoringInterval' = monitoringInterval
         /\ killSwitch' = killSwitch
         /\ strategies' = strategies
         /\ activePositions' = activePositions
         /\ positionHistory' = positionHistory
         /\ \A d \in CycleIds \ {c} : cycles'[d] = cycles[d]
         /\ cycles'[c] \in
              IF thrown'.call \in {"canExecute", "execute"}
                THEN StrategyStops(cycles[c].visited, activePositions)
                ELSE PositionStops(cycles[c], activePositions)]_vars

\* execute() of the first strategy threw and the same cycle is now at canExecute()
\* of the second one, the engine running with its timer armed
C23_Witness ==
  /\ thrown.call = "execute"
  /\ thrown.s = "s1"
  /\ cycles[thrown.c].pc = "canExecute"
  /\ cycles[thrown.c].s = "s2"
  /\ running
  /\ monitoringInterval \in armed

C25_OpenWithinMaximum == openRows <= MaxOpenPositions


\* C26: every write to the position records is made by PositionManager: a step
\* in which a position record changes is never a step of a RiskManager
\* operation (HedgeEngine writes through PositionManager operations only).
C26_OnlyPositionManagerWrites ==
  [][positions' # positions =>
       \A t \in TaskIds :
         tasks'[t] # tasks[t] => tasks[t].op # "emergencyExit"]_vars


\* the rows of hedge group id in a set of rows
RowsOfHedge(rows, id) == {r \in rows : r.hedgePositionId = id}

\* C27: a successful openHedgePosition(user, X, amount, strategy) persists
\* exactly two OPEN positions that share one new hedge group id, a long leg of
\* size amount and a short leg of size amount x ratio (ratio 1.0 for
\* "delta-neutral": two legs of the amount), with equal entry prices, and
\* creates or changes no other position.
C27_OpenPersistsTheTwoLegs ==
  [][\A i \in OpenerIds :
       (openers[i].pc = "deposits" /\ openers'[i].outcome = "opened") =>
         LET o == openers'[i]
             new == hedgeRows' \ hedgeRows
         IN /\ hedgeRows \subseteq hedgeRows'
            /\ Cardinality(new) = 2
            /\ RowsOfHedge(hedgeRows, o.hedgeId) = {}
            /\ \E long \in new, short \in new :
                 /\ long.isLongSide /\ ~short.isLongSide
                 /\ long.status = "OPEN" /\ short.status = "OPEN"
                 /\ long.hedgePositionId = o.hedgeId
                 /\ short.hedgePositionId = o.hedgeId
                 /\ long.amount = o.amount
                 /\ short.amount * 100 = o.amount * o.hedgeRatio
                 /\ o.strategyType = "delta-neutral" => short.amount = o.amount
                 /\ long.entryPrice = short.entryPrice]_vars

\* a delta-neutral open of amount 100 has returned, with its two legs of 100
\* next to the rows of an earlier hedge
C27_Witness ==
  \E i \in OpenerIds :
    /\ openers[i].outcome = "opened"
    /\ openers[i].strategyType = "delta-neutral"
    /\ openers[i].amount = 100
    /\ {r.amount : r \in RowsOfHedge(hedgeRows, openers[i].hedgeId)} = {100}
    /\ Cardinality(RowsOfHedge(hedgeRows, openers[i].hedgeId)) = 2
    /\ hedgeRows # RowsOfHedge(hedgeRows, openers[i].hedgeId)


\* C28: closeHedgePosition on a complete open group marks both legs CLOSED and
\* returns longPnl = (longExit - longEntry) x longAmount, shortPnl =
\* (shortExit - shortEntry) x shortAmount and totalPnl = longPnl + shortPnl.
C28_CloseReturnsPnl ==
  [][\A t \in TaskIds :
       ( /\ tasks[t].op = "closeHedgePosition"
         /\ tasks[t].pc = "closeAll"
         /\ tasks'[t] = IdleTask
         /\ closeResult'.threw = "no" ) =>
         /\ \A l \in Legs : positions'[l].status = "CLOSED"
         /\ closeResult'.op = "closeHedgePosition"
         /\ closeResult'.longPnl =
              (tasks[t].prices["long"] - positions'["long"].entryPrice)
                * positions'["long"].amount
         /\ closeResult'.shortPnl =
              (tasks[t].prices["short"] - positions'["short"].entryPrice)
                * positions'["short"].amount
         /\ closeResult'.totalPnl =
              closeResult'.longPnl + closeResult'.shortPnl]_vars

\* the hedge entered at 100 with amounts 1 was closed at 110 and 95: 10, -5 and 5
C28_Witness ==
  /\ closeResult.op = "closeHedgePosition"
  /\ closeResult.threw = "no"
  /\ closeResult.longPnl = 10
  /\ closeResult.shortPnl = -5
  /\ closeResult.totalPnl = 5
  /\ \A l \in Legs : /\ positions[l].status = "CLOSED"
                     /\ positions[l].entryPrice = 100
                     /\ positions[l].amount = 1
  /\ positions["long"].currentPrice = 110
  /\ positions["short"].currentPrice = 95


\* C29: closeHedgePosition, rebalancePosition and getPositionPnL reject a hedge
\* group that lacks a long or a short leg: they raise an error and change no
\* position; getHedgePositions never returns such a group.
C29_IncompleteGroupRejected ==
  [][/\ \A t \in TaskIds, lp \in ClosePrices, sp \in ClosePrices :
          ( /\ AllFound # Legs
            /\ \/ closeHedgePositionCalled(t, lp, sp)
               \/ rebalancePositionCalled(t, lp, sp)
               \/ getPositionPnLCalled(t, lp, sp) ) =>
            /\ closeResult'.threw = "incomplete"
            /\ positions' = positions
            /\ tasks' = tasks
     /\ (AllFound # Legs /\ getHedgePositions) => closeResult'.groups = {}]_vars

\* getPositionPnL was rejected for a group that has its long row only, and the
\* row is as it was created
C29_Witness ==
  /\ positions["long"].status = "OPEN"
  /\ positions["short"].status = "NONE"
  /\ closeResult.threw = "incomplete"
  /\ closeResult.op = "getPositionPnL"
  /\ positions["long"] = NewPosition


\* the adverse move of side l at the price exceeds the stop-loss threshold: a
\* fall of the price for the long side, a rise for the short side
ExceedsStopLoss(l, price) ==
  IF l = "long"
    THEN (positions[l].entryPrice - price) * 100
           > StopLossPercent * positions[l].entryPrice
    ELSE (price - positions[l].entryPrice) * 100
           > StopLossPercent * positions[l].entryPrice

\* C30: closePositionsExceedingStopLoss closes every open position whose
\* side-aware adverse move exceeds the supplied threshold, and closes no other
\* position: a position that a sweep changes is open and beyond the threshold, and
\* when a sweep returns no position beyond the threshold is left open.
C30_SweepClosesExactlyTheExceeding ==
  [][\A t \in TaskIds :
       (tasks[t].op = "closePositionsExceedingStopLoss" /\ tasks'[t] # tasks[t]) =>
         /\ \A l \in Legs :
              positions'[l] # positions[l] =>
                /\ positions[l].status = "OPEN"
                /\ ExceedsStopLoss(l, tasks[t].prices[l])
         /\ tasks'[t] = IdleTask =>
              \A l \in Legs :
                positions'[l].status = "OPEN" =>
                  ~ExceedsStopLoss(l, tasks[t].prices[l])]_vars

\* C31: checkSufficientBalance(required, available) is valid exactly when
\* available >= required x 1.01, for every pair of amounts; when it is invalid
\* the reason tells apart available < required from a balance that covers the
\* amount but not the 1% buffer for fees.
C31_BalanceWithBuffer ==
  riskCall.op = "checkSufficientBalance" =>
    /\ riskCall.valid <=> (riskCall.b * 100 >= riskCall.a * 101)
    /\ ~riskCall.valid =>
         riskCall.reason = IF riskCall.b < riskCall.a
                             THEN "Insufficient balance"
                             ELSE "Insufficient balance for trade + fees"

\* a balance of 200 for the amount 200 was rejected for the fees, and it covers
\* the amount
C31_Witness ==
  /\ riskCall.op = "checkSufficientBalance"
  /\ riskCall.a = 200
  /\ riskCall.b = 200
  /\ ~riskCall.valid
  /\ riskCall.reason = "Insufficient balance for trade + fees"

\* C32: shouldTriggerStopLossWithDefault(current, entry, side, pct) is true for
\* a long leg exactly when (entry - current)/entry >= pct and for a short leg
\* exactly when (current - entry)/entry >= pct, for every supplied pct, with
\* pct = 0.10 when it is omitted.
C32_StopLossAtEveryPercent ==
  riskCall.op = "shouldTriggerStopLossWithDefault" =>
    LET pct == IF riskCall.supplied THEN riskCall.pct ELSE 10
        current == riskCall.a
        entry == riskCall.b
    IN riskCall.valid <=>
         IF riskCall.side = "long"
           THEN (entry - current) * 100 >= pct * entry
           ELSE (current - entry) * 100 >= pct * entry

\* C33: validateHedgeRatio(r) is valid exactly when minRatio <= r <= maxRatio,
\* both limits included.
C33_RatioWithinLimits ==
  riskCall.op = "validateHedgeRatio" =>
    (riskCall.valid <=>
       (HedgeConfig.minRatio <= riskCall.a /\ riskCall.a <= HedgeConfig.maxRatio))

\* the ratio of the upper limit was accepted
C33_Witness ==
  /\ riskCall.op = "validateHedgeRatio"
  /\ riskCall.a = HedgeConfig.maxRatio
  /\ riskCall.valid

\* the arrival numbers of the last n of the points delivered so far
LastArrivals(n) ==
  [i \in 1..n |-> priceUpdates.arrivals - n + i]

\* C34: after any sequence of price ingestions the history of a monitored pool
\* holds at most 100 points, and they are exactly the most recently ingested
\* points in arrival order: on overflow the oldest point is evicted.
C34_HistoryKeepsTheLatest ==
  priceHistory.has =>
    LET n == Min({HISTORY_SIZE, priceUpdates.sinceCleared})
    IN /\ Len(priceHistory.points) <= HISTORY_SIZE
       /\ Len(priceHistory.points) = n
       /\ [i \in 1..n |-> priceHistory.points[i].timestamp] = LastArrivals(n)
       /\ \A i \in 1..n :
            priceHistory.points[i] = PricePoint(priceHistory.points[i].timestamp)

\* 102 points were ingested and the history holds the points 3 to 102
C34_Witness ==
  /\ priceHistory.has
  /\ priceUpdates.sinceCleared = 102
  /\ Len(priceHistory.points) = 100
  /\ priceHistory.points[1].timestamp = 3
  /\ priceHistory.points[100].timestamp = 102

\* C39: after stopMonitoring(pool) no price history exists for the pool, and
\* none reappears until startMonitoring(pool) is called again: a price update
\* delivered after stopMonitoring is not recorded.
C39_NoHistoryAfterStop ==
  priceUpdates.stopped => ~priceHistory.has

\* validateOrder of the leg throws in this step
ValidationFails(l) ==
  /\ ex[l].pc = "validate"
  /\ ex'[l].pc \notin {"validate", "create"}

\* what the claim says of a call whose validation has just failed: no order record
\* and no venue call of the call, returned with success=false and retryAttempts=0,
\* no sleep taken
NoTraceOf(l) ==
  /\ \A i \in 1..Len(orderRecords') : orderRecords'[i].leg # l
  /\ \A i \in 1..Len(venueLog') : venueLog'[i] # l
  /\ ex'[l].pc = "returned"
  /\ ex'[l].result.success = FALSE
  /\ ex'[l].result.error.kind \in {"InsufficientFundsError", "Error"}
  /\ ex'[l].result.retryAttempts = 0
  /\ ex'[l].slept = <<>>

\* C35 as stated: an order that fails validation (balance below the amount,
\* amount <= 0 or no pool) leaves no trace: no order record is created, no venue
\* call is made, and executeOrder returns success=false with retryAttempts=0
\* without sleeping.
C35_FailedValidationLeavesNoTrace ==
  [][ \A l \in Legs : ValidationFails(l) => NoTraceOf(l) ]_vars

\* C35 amended: an order that fails the validation of its first attempt leaves no
\* trace: no order record, no venue call, success=false with retryAttempts=0 and
\* no sleep. (Validation runs again in every retry, after the records, venue calls
\* and sleeps of the attempts before.)
C35_FirstValidationLeavesNoTrace ==
  [][ \A l \in Legs : ValidationFails(l) /\ ex[l].attempts = 1 => NoTraceOf(l) ]_vars

\* the long order was refused for its balance in its first attempt and returned
C35_Witness ==
  /\ ex["long"].pc = "returned"
  /\ ex["long"].attempts = 1
  /\ ex["long"].result.error.kind = "InsufficientFundsError"
  /\ ex["long"].result.retryAttempts = 0
  /\ orderRecords = <<>>
  /\ venueLog = <<>>

\* cycle c is suspended inside the strategy loop of monitoringCycle
InStrategyLoop(c) == cycles[c].pc \in {"canExecute", "execute"}

\* the interval timer fires and its cycle suspends in the strategy loop while a
\* cycle that was there stays where it is
TickOverlaps ==
  /\ timerFires
  /\ startOutcome' = "none"
  /\ thrown' = NoThrow
  /\ UNCHANGED maxPositionSize
  /\ CycleOnly
  /\ \E c, d \in CycleIds :
       /\ c # d
       /\ InStrategyLoop(c)
       /\ cycles'[c] = cycles[c]
       /\ cycles[d].pc = "idle"
       /\ cycles'[d].pc = "canExecute"

\* C36: monitoring cycles are not serialized: while the awaited work of a cycle
\* lasts (it is suspended in the strategy loop) and the engine is running with the
\* kill switch off, a tick of the interval timer starts a new cycle, so that two
\* cycles are inside the strategy loop at the same time.
C36_TickStartsOverlappingCycle ==
  ( /\ running
    /\ ~killSwitch
    /\ armed # {}
    /\ cycleRuns < MaxCycleRuns
    /\ \E c \in CycleIds : InStrategyLoop(c)
    /\ \E d \in CycleIds : cycles[d].pc = "idle" )
  => ENABLED TickOverlaps

\* two cycles are inside the strategy loop at the same time, one awaiting
\* execute() and one awaiting canExecute()
C36_Witness ==
  /\ cycles[1].pc = "execute"
  /\ cycles[2].pc = "canExecute"
  /\ running
  /\ Cardinality(armed) = 1

\* C37: under every interleaving of start(), stop(), activateKillSwitch() and
\* deactivateKillSwitch(), calls that arrive while start() is suspended in the
\* initialization of the strategies included, at most one monitoring interval
\* timer is armed at any time, and none is armed while the engine is STOPPED.
C37_OneTimerAndNoneWhenStopped ==
  /\ Cardinality(armed) <= 1
  /\ ~running => armed = {}

\* C38: after the unsubscribe function returned by subscribe(pool, onPrice) has
\* been called, onPrice is never invoked again and no polling interval or
\* reconnect timer for it is left armed or armed later, even if a price fetch was
\* in flight or a reconnect was pending at that moment.
C38_UnsubscribeIsFinal ==
  \A callback \in unsubscribeLog.called :
    /\ callback \notin unsubscribeLog.invokedAfter
    /\ pollingIntervals # callback
    /\ \A timer \in reconnectTimers : timer[1] # callback

\* C40: when emergencyCloseAllHedgePositions returns with an empty errors list,
\* none of the hedge legs of the user is still OPEN, the legs of groups whose
\* other leg is missing or already closed included.
C40_EmergencyCloseLeavesNoneOpen ==
  [][ ( /\ returned' # returned
        /\ returned'.op = "emergencyCloseAllHedgePositions"
        /\ ~returned'.threw
        /\ returned'.errors = <<>> )
      => \A l \in Legs : positions'[l].status # "OPEN" ]_vars

====
